---------------------------- MODULE Spec2Model ----------------------------
(***************************************************************************)
(* A model of the Elantech PS/2 touchpad driver ApplePS2Elan               *)
(* (VoodooPS2Trackpad/VoodooPS2Elan.cpp): byte reassembly, packet          *)
(* classification, the virtual-finger tracker of hardware versions 1..4,   *)
(* the coordinate rescaler, the frame emitter, and device negotiation.     *)
(*                                                                         *)
(* The driver object is modelled as one record of its member variables.    *)
(* Every C++ method is an operator from a driver record to the driver      *)
(* record it leaves behind; the actions bind the record to the module's    *)
(* variables.                                                              *)
(*                                                                         *)
(* Unsigned 32-bit members (coordinates, bounds) are held as integers: a   *)
(* negative integer v stands for the wrapped value 2^32 + v.  The          *)
(* operators ULt/ULe/UDiv compare and divide in that reading.  64-bit      *)
(* times are naturals far below 2^63; U64SubLt computes the wrapped        *)
(* unsigned difference comparison.                                         *)
(***************************************************************************)
EXTENDS Integers, Sequences, FiniteSets, TLC

(***************************************************************************)
(* Bounds of the model.                                                    *)
(***************************************************************************)
\* number of packets a behaviour delivers to the driver
MaxPackets == 3
\* number of bytes a behaviour of the reassembly specification delivers
MaxBytes == 13
\* number of ticks of the clock (mach_absolute_time) in a behaviour
MaxTime == 1
\* the configured QuietTimeAfterTyping, in ticks of the clock
QuietTime == 1
\* size of _ringBuffer, in units of twelve bytes
RingRounds == 1
\* number of packets a behaviour delivers to a touchpad with a jumpy cursor
MaxSingles == 4

(***************************************************************************)
(* Program constants.                                                      *)
(***************************************************************************)
ETP_MAX_FINGERS == 5
VOODOO_INPUT_MAX_TRANSDUCERS == 10
ETP_WEIGHT_VALUE == 5
\* capacity in bytes of _ringBuffer, a multiple of both packet lengths
RingCapacity == 12 * RingRounds
\* the firmware the IS_ETD0180() macro names
FW_ETD0180 == 3677975

PACKET_UNKNOWN == "PACKET_UNKNOWN"
PACKET_DEBOUNCE == "PACKET_DEBOUNCE"
PACKET_V3_HEAD == "PACKET_V3_HEAD"
PACKET_V3_TAIL == "PACKET_V3_TAIL"
PACKET_V4_HEAD == "PACKET_V4_HEAD"
PACKET_V4_MOTION == "PACKET_V4_MOTION"
PACKET_V4_STATUS == "PACKET_V4_STATUS"
PACKET_TRACKPOINT == "PACKET_TRACKPOINT"

(***************************************************************************)
(* Bit arithmetic on naturals, as the C operators &, |, << and >> compute  *)
(* it on bytes and small unsigned values.                                  *)
(***************************************************************************)
RECURSIVE BitAnd(_, _)
BitAnd(a, b) ==
    IF a = 0 \/ b = 0 THEN 0
    ELSE (a % 2) * (b % 2) + 2 * BitAnd(a \div 2, b \div 2)

RECURSIVE BitOr(_, _)
BitOr(a, b) ==
    IF a = 0 THEN b
    ELSE IF b = 0 THEN a
    ELSE (IF (a % 2) + (b % 2) > 0 THEN 1 ELSE 0) + 2 * BitOr(a \div 2, b \div 2)

RECURSIVE Pow2(_)
Pow2(n) == IF n = 0 THEN 1 ELSE 2 * Pow2(n - 1)

Shl(a, n) == a * Pow2(n)
Shr(a, n) == a \div Pow2(n)

\* (signed char) b : the two's complement reading of a byte
SignedChar(b) == IF b >= 128 THEN b - 256 ELSE b

\* unsigned 32-bit comparison of two values held as integers
ULt(a, b) ==
    IF (a >= 0) = (b >= 0) THEN a < b ELSE b < 0

ULe(a, b) == a = b \/ ULt(a, b)

\* the comparison with <= in place of <
U64SubLtOrEq(a, b, limit) ==
    IF a >= b THEN a - b <= limit ELSE FALSE

\* (timestamp - keytime) < limit in wrapping unsigned 64-bit arithmetic, for
\* operands far below 2^63: a negative difference wraps to a value above
\* every such limit
U64SubLt(a, b, limit) ==
    IF a >= b THEN a - b < limit ELSE FALSE

\* byte i (0-based, as in the C code) of a packet
Byte(packet, i) == packet[i + 1]

(***************************************************************************)
(* The driver object.  The module's variables are its members; Driver is   *)
(* the record the method operators work on.                                *)
(***************************************************************************)
VARIABLES
    info,                 \* elantech_device_info info
    etd,                  \* elantech_data etd
    virtualFinger,        \* virtual_finger_state virtualFinger[ETP_MAX_FINGERS]
    buttons,              \* leftButton, rightButton, lastLeftButton, lastRightButton, lastbuttons
    lastFingers,
    heldFingers,
    headPacketsCount,
    keytime,
    maxaftertyping,
    ignoreall,
    ringBuffer,           \* _ringBuffer: buffer, head, tail, count
    packetByteCount,      \* _packetByteCount
    packetLength,         \* _packetLength
    inputEvent,           \* VoodooInputEvent inputEvent
    voodooInputInstance,  \* TRUE while a consumer is open
    mbutton,              \* _mbuttonstate, _pendingbuttons, _buttontime, timer armed
    config,               \* _fakemiddlebutton, _maxmiddleclicktime, _forceTouchMode, ...,
                          \* usb_mouse_stops_trackpad and attachedHIDPointerDevices
    exported,             \* the logical / physical dimension properties set by setProperty
    outOfBounds,          \* a slot index outside virtualFinger[] has been used
    out,                  \* messages sent to the consumer by the last step
    trace,                \* requests to the PS/2 port and kernel calls of the last step
    lastPacketType,       \* packetType of the last packet packetReady dispatched
    now,                  \* the clock read by mach_absolute_time()
    delivered,            \* the packets packetReady has taken from the ring
    stream,               \* bytes given to interruptOccurred since the last clear
    results,              \* what interruptOccurred returned for each of them
    phase,                \* life cycle of the driver object
    device,               \* the touchpad on the PS/2 port: what it answers to queries
    op,                   \* the operation the last step performed
    total,                \* packets / bytes the device has sent in the whole behaviour
    scratch               \* inputs and results of the pure-function specifications

vars == << info, etd, virtualFinger, buttons, lastFingers, heldFingers,
           headPacketsCount, keytime, maxaftertyping, ignoreall, ringBuffer,
           packetByteCount, packetLength, inputEvent, voodooInputInstance,
           mbutton, config, exported, outOfBounds, out, trace, lastPacketType,
           now, delivered,
           stream, results, phase, device, op, total, scratch >>

Driver ==
    [ info |-> info, etd |-> etd, virtualFinger |-> virtualFinger,
      buttons |-> buttons, lastFingers |-> lastFingers,
      heldFingers |-> heldFingers, headPacketsCount |-> headPacketsCount,
      keytime |-> keytime, maxaftertyping |-> maxaftertyping,
      ignoreall |-> ignoreall, ringBuffer |-> ringBuffer,
      packetByteCount |-> packetByteCount, packetLength |-> packetLength,
      inputEvent |-> inputEvent, voodooInputInstance |-> voodooInputInstance,
      mbutton |-> mbutton, config |-> config, exported |-> exported,
      outOfBounds |-> outOfBounds,
      out |-> out, trace |-> trace, lastPacketType |-> lastPacketType ]

\* the driver object becomes d
Becomes(d) ==
    /\ info' = d.info
    /\ etd' = d.etd
    /\ virtualFinger' = d.virtualFinger
    /\ buttons' = d.buttons
    /\ lastFingers' = d.lastFingers
    /\ heldFingers' = d.heldFingers
    /\ headPacketsCount' = d.headPacketsCount
    /\ keytime' = d.keytime
    /\ maxaftertyping' = d.maxaftertyping
    /\ ignoreall' = d.ignoreall
    /\ ringBuffer' = d.ringBuffer
    /\ packetByteCount' = d.packetByteCount
    /\ packetLength' = d.packetLength
    /\ inputEvent' = d.inputEvent
    /\ voodooInputInstance' = d.voodooInputInstance
    /\ mbutton' = d.mbutton
    /\ config' = d.config
    /\ exported' = d.exported
    /\ outOfBounds' = d.outOfBounds
    /\ out' = d.out
    /\ trace' = d.trace
    /\ lastPacketType' = d.lastPacketType

Slots == 0 .. (ETP_MAX_FINGERS - 1)

IS_ETD0180(d) == d.info.fw_version = FW_ETD0180

\* a zero-initialised virtual_finger_state
NoFinger ==
    [ touch |-> FALSE, button |-> 0, now |-> [x |-> 0, y |-> 0],
      prev |-> [x |-> 0, y |-> 0], pressure |-> 0, width |-> 0 ]

\* a zero-initialised VoodooInputTransducer
NoTransducer ==
    [ currentCoordinates |-> [x |-> 0, y |-> 0, pressure |-> 0, width |-> 0],
      previousCoordinates |-> [x |-> 0, y |-> 0],
      timestamp |-> 0, isValid |-> FALSE, isPhysicalButtonDown |-> FALSE,
      isTransducerActive |-> FALSE, supportsPressure |-> FALSE,
      secondaryId |-> 0, fingerType |-> "Undefined" ]

(***************************************************************************)
(* Frame emitter: middleButton, isMultiFingerWithNavigation,               *)
(* GetBestFingerType and sendTouchData.                                    *)
(***************************************************************************)
\* x / 2 for an unsigned 32-bit x
UHalf(x) ==
    IF x >= 0 THEN x \div 2 ELSE (2147483647 + (x \div 2)) + 1

\* (now - since) > limit in wrapping unsigned 64-bit arithmetic
U64SubGt(a, b, limit) ==
    IF a >= b THEN a - b > limit ELSE TRUE

\* the kernel's absolutetime_to_nanoseconds(): the time base of the
\* platforms this driver runs on is 1/1
absolutetime_to_nanoseconds(t) == t

isMultiFingerWithNavigation(d) ==
    IF ULe(d.info.y_max, 100) THEN FALSE
    ELSE LET nav_threshold == d.info.y_max - 100
             active == { i \in Slots : d.virtualFinger[i].touch }
             nav == { i \in active : ULt(d.virtualFinger[i].now.y, nav_threshold) }
         IN  Cardinality(active) > 1 /\ nav # {}

\* the buttons go through as they come
middleButtonPassThrough(d, btns, now_abs, from) ==
    [ mbutton |-> d.mbutton, buttons |-> btns ]

\* the new _mbuttonstate machine and the buttons middleButton returns
middleButton(d, btns, now_abs, from) ==
    LET mb == d.mbutton
        same == [ mbutton |-> mb, buttons |-> btns ]
    IN
    IF d.config.fakemiddlebutton = 0 \/ d.info.is_buttonpad THEN same
    ELSE IF btns = 3 /\ isMultiFingerWithNavigation(d)
         THEN [ mbutton |-> mb, buttons |-> 1 ]
    ELSE
    LET now_ns == absolutetime_to_nanoseconds(now_abs)
        timeout == from = "fromTimer"
                   \/ U64SubGt(now_ns, mb.buttontime, d.config.maxmiddleclicktime)
        cancelled == [ mb EXCEPT !.pendingbuttons = 0, !.timerArmed = FALSE ]
        waiting(st) == [ mb EXCEPT !.pendingbuttons = btns, !.buttontime = now_ns,
                                   !.timerArmed = TRUE, !.state = st ]
        mb2 ==
            CASE mb.state = "STATE_NOBUTTONS" ->
                    IF BitAnd(btns, 4) # 0 THEN [ mb EXCEPT !.state = "STATE_NOOP" ]
                    ELSE IF btns = 3 THEN [ mb EXCEPT !.state = "STATE_MIDDLE" ]
                    ELSE IF btns # 0 THEN waiting("STATE_WAIT4TWO")
                    ELSE mb
              [] mb.state = "STATE_WAIT4TWO" ->
                    IF ~timeout /\ btns = 3
                    THEN [ cancelled EXCEPT !.state = "STATE_MIDDLE" ]
                    ELSE IF timeout \/ btns # mb.pendingbuttons
                    THEN [ cancelled EXCEPT !.state =
                             IF btns = 0 THEN "STATE_NOBUTTONS" ELSE "STATE_NOOP" ]
                    ELSE mb
              [] mb.state = "STATE_MIDDLE" ->
                    IF btns = 0 THEN [ mb EXCEPT !.state = "STATE_NOBUTTONS" ]
                    ELSE IF BitAnd(btns, 3) # 3 THEN waiting("STATE_WAIT4NONE")
                    ELSE mb
              [] mb.state = "STATE_WAIT4NONE" ->
                    IF ~timeout /\ btns = 0
                    THEN [ cancelled EXCEPT !.state = "STATE_NOBUTTONS" ]
                    ELSE IF timeout \/ btns # mb.pendingbuttons
                    THEN [ cancelled EXCEPT !.state =
                             IF btns = 0 THEN "STATE_NOBUTTONS" ELSE "STATE_NOOP" ]
                    ELSE mb
              [] OTHER ->   \* STATE_NOOP
                    IF btns = 0 THEN [ mb EXCEPT !.state = "STATE_NOBUTTONS" ]
                    ELSE mb
        res ==
            CASE mb2.state = "STATE_MIDDLE" -> 4
              [] mb2.state \in { "STATE_WAIT4NONE", "STATE_WAIT4TWO" } ->
                    btns - BitAnd(btns, 3)
              [] OTHER -> btns
    IN  [ mbutton |-> mb2, buttons |-> res ]

GetBestFingerType(i) ==
    CASE i = 0 -> "IndexFinger"
      [] i = 1 -> "MiddleFinger"
      [] i = 2 -> "RingFinger"
      [] i = 3 -> "Thumb"
      [] i = 4 -> "LittleFinger"
      [] OTHER -> "IndexFinger"

\* the slots with touch set, walked from the last slot down
RECURSIVE TouchedDescending(_, _)
TouchedDescending(vf, i) ==
    IF i >= ETP_MAX_FINGERS THEN << >>
    ELSE IF vf[i].touch THEN TouchedDescending(vf, i + 1) \o << i >>
    ELSE TouchedDescending(vf, i + 1)

\* the slots with touch set, in increasing order (the order of the loop)
RECURSIVE TouchedFrom(_, _)
TouchedFrom(vf, i) ==
    IF i >= ETP_MAX_FINGERS THEN << >>
    ELSE IF vf[i].touch THEN << i >> \o TouchedFrom(vf, i + 1)
    ELSE TouchedFrom(vf, i + 1)

\* the transducer sendTouchData writes for slot i as entry k of the frame,
\* over old, the entry's previous content
FillTransducer(d, old, i, k, timestamp, is_clickpad_pressed, total_fingers) ==
    LET state == d.virtualFinger[i]
        button_area_threshold == d.info.y_max - 400
        t0 == [ old EXCEPT
                  !.currentCoordinates =
                      [ x |-> state.now.x, y |-> state.now.y,
                        pressure |-> 0, width |-> 0 ],
                  !.previousCoordinates = state.prev,
                  !.timestamp = timestamp,
                  !.isValid = TRUE ]
        forceTouch(t) ==
            [ t EXCEPT !.supportsPressure = TRUE,
                       !.isPhysicalButtonDown = FALSE,
                       !.currentCoordinates.pressure = 255,
                       !.currentCoordinates.width = 10 ]
        plain(t, down) ==
            [ t EXCEPT !.supportsPressure = FALSE,
                       !.isPhysicalButtonDown = down,
                       !.currentCoordinates.pressure = 0,
                       !.currentCoordinates.width = 0 ]
        t1 == IF d.info.is_buttonpad /\ is_clickpad_pressed
              THEN IF ULt(state.now.y, button_area_threshold)
                   THEN IF total_fingers = 1 THEN forceTouch(t0)
                        ELSE plain(t0, TRUE)
                   ELSE plain(t0, FALSE)
              ELSE IF ~d.info.is_buttonpad /\ state.button # 0
                   THEN [ t0 EXCEPT !.isPhysicalButtonDown = TRUE ]
              ELSE plain(t0, FALSE)
        t2 == [ t1 EXCEPT !.isTransducerActive = TRUE,
                          !.secondaryId = i,
                          !.fingerType = GetBestFingerType(k) ]
    IN  IF ~d.info.is_buttonpad
           /\ d.config.forceTouchMode = "FORCE_TOUCH_BUTTON"
           /\ t2.isPhysicalButtonDown
        THEN forceTouch(t2)
        ELSE t2

\* the thumb reassignment of a frame with at least four contacts
RECURSIVE NewThumbIndex(_, _, _, _, _)
NewThumbIndex(tr, n, i, maxY, best) ==
    IF i >= n THEN best
    ELSE IF ULt(maxY, tr[i].currentCoordinates.y)
         THEN NewThumbIndex(tr, n, i + 1, tr[i].currentCoordinates.y, i)
         ELSE NewThumbIndex(tr, n, i + 1, maxY, best)

RECURSIVE CurrentThumbIndex(_, _, _, _)
CurrentThumbIndex(tr, n, i, cur) ==
    IF i >= n THEN cur
    ELSE CurrentThumbIndex(tr, n, i + 1,
                           IF tr[i].fingerType = "Thumb" THEN i ELSE cur)

\* the thumb stays where the enumeration has put it
SetThumbEnumerated(tr, n) == tr

SetThumb(tr, n) ==
    IF n < 4 THEN tr
    ELSE LET newThumbIndex == NewThumbIndex(tr, n, 0, 0, 0)
             currentThumbIndex == CurrentThumbIndex(tr, n, 0, 0)
             a == [ tr EXCEPT ![currentThumbIndex].fingerType =
                                  tr[newThumbIndex].fingerType ]
         IN  [ a EXCEPT ![newThumbIndex].fingerType = "Thumb" ]

sendTouchData(d, timestamp) ==
    IF U64SubLt(timestamp, d.keytime, d.maxaftertyping) THEN d
    ELSE
    LET vf == d.virtualFinger
        touched == TouchedFrom(vf, 0)
        transducers_count == Len(touched)
        button_area_threshold == d.info.y_max - 400
        left_right_split == UHalf(d.info.x_max)
        inButtonArea(j) == ~ULt(vf[j].now.y, button_area_threshold)
        left_button_pressed ==
            \E j \in Slots : vf[j].touch /\ inButtonArea(j) /\ vf[j].button # 0
                             /\ ULt(vf[j].now.x, left_right_split)
        right_button_pressed ==
            \E j \in Slots : vf[j].touch /\ inButtonArea(j) /\ vf[j].button # 0
                             /\ ~ULt(vf[j].now.x, left_right_split)
        is_clickpad_pressed ==
            d.info.is_buttonpad /\ \E j \in Slots : vf[j].touch /\ vf[j].button # 0
        leftButton == IF d.info.is_buttonpad
                      THEN (IF left_button_pressed THEN 1 ELSE 0)
                      ELSE d.buttons.left
        rightButton == IF d.info.is_buttonpad
                       THEN (IF right_button_pressed THEN 1 ELSE 0)
                       ELSE d.buttons.right
        filled == [ k \in 0 .. (VOODOO_INPUT_MAX_TRANSDUCERS - 1) |->
                      IF k < transducers_count
                      THEN FillTransducer(d, d.inputEvent.transducers[k],
                                          touched[k + 1], k, timestamp,
                                          is_clickpad_pressed, transducers_count)
                      ELSE d.inputEvent.transducers[k] ]
        thumbed == SetThumb(filled, transducers_count)
        cleared == [ k \in 0 .. (VOODOO_INPUT_MAX_TRANSDUCERS - 1) |->
                       IF k < transducers_count THEN thumbed[k]
                       ELSE [ thumbed[k] EXCEPT !.isValid = FALSE,
                                                !.isPhysicalButtonDown = FALSE,
                                                !.isTransducerActive = FALSE ] ]
        event == [ contact_count |-> transducers_count,
                   timestamp |-> timestamp,
                   transducers |-> cleared ]
        out1 == IF d.voodooInputInstance
                THEN Append(d.out, [ type |-> "touch", event |-> event ])
                ELSE d.out
        rawButtons == (IF leftButton # 0 THEN 1 ELSE 0)
                      + (IF rightButton # 0 THEN 2 ELSE 0)
        d1 == [ d EXCEPT !.buttons.left = leftButton,
                         !.buttons.right = rightButton ]
        mb == middleButton(d1, rawButtons, timestamp, "fromMouse")
        send == IF transducers_count = 0 THEN TRUE
                ELSE d.buttons.lastLeft # leftButton
                     \/ d.buttons.lastRight # rightButton
                     \/ leftButton # 0 \/ rightButton # 0
        out2 == IF send
                THEN Append(out1, [ type |-> "trackpoint",
                                    toClient |-> d.voodooInputInstance,
                                    timestamp |-> timestamp,
                                    buttons |-> mb.buttons, dx |-> 0, dy |-> 0 ])
                ELSE out1
    IN  [ d EXCEPT !.buttons = [ left |-> leftButton, right |-> rightButton,
                                 lastLeft |-> leftButton, lastRight |-> rightButton,
                                 lastbuttons |-> mb.buttons ],
                   !.inputEvent = event,
                   !.mbutton = mb.mbutton,
                   !.out = out2 ]

(***************************************************************************)
(* Hardware version 4: classification and the Status / Head / Motion       *)
(* handlers.                                                               *)
(***************************************************************************)
\* the classification by the type bits alone, the constant bits not looked at
elantechPacketCheckV4Unchecked(d, packet) ==
    LET packet_type == BitAnd(Byte(packet, 3), 3)
    IN  IF d.info.has_trackpoint /\ BitAnd(Byte(packet, 3), 15) = 6
        THEN PACKET_TRACKPOINT
        ELSE CASE packet_type = 0 -> PACKET_V4_STATUS
               [] packet_type = 1 -> PACKET_V4_HEAD
               [] packet_type = 2 -> PACKET_V4_MOTION
               [] OTHER -> PACKET_UNKNOWN

\* the constant bits are checked before the trackpoint signature
elantechPacketCheckV4SanityFirst(d, packet) ==
    LET packet_type == BitAnd(Byte(packet, 3), 3)
        ic_version == Shr(BitAnd(d.info.fw_version, 983040), 16)
        sanity_check ==
            IF d.info.crc_enabled
            THEN BitAnd(Byte(packet, 3), 8) = 0
            ELSE IF ic_version = 7 /\ d.info.samples[2] = 42
            THEN BitAnd(Byte(packet, 3), 28) = 16
            ELSE BitAnd(Byte(packet, 0), 8) = 0 /\ BitAnd(Byte(packet, 3), 28) = 16
    IN  IF ~sanity_check THEN PACKET_UNKNOWN
        ELSE IF d.info.has_trackpoint /\ BitAnd(Byte(packet, 3), 15) = 6
        THEN PACKET_TRACKPOINT
        ELSE CASE packet_type = 0 -> PACKET_V4_STATUS
               [] packet_type = 1 -> PACKET_V4_HEAD
               [] packet_type = 2 -> PACKET_V4_MOTION
               [] OTHER -> PACKET_UNKNOWN

elantechPacketCheckV4(d, packet) ==
    LET packet_type == BitAnd(Byte(packet, 3), 3)
        ic_version == Shr(BitAnd(d.info.fw_version, 983040), 16)
        sanity_check ==
            IF d.info.crc_enabled
            THEN BitAnd(Byte(packet, 3), 8) = 0
            ELSE IF ic_version = 7 /\ d.info.samples[2] = 42
            THEN BitAnd(Byte(packet, 3), 28) = 16
            ELSE BitAnd(Byte(packet, 0), 8) = 0 /\ BitAnd(Byte(packet, 3), 28) = 16
    IN  IF d.info.has_trackpoint /\ BitAnd(Byte(packet, 3), 15) = 6
        THEN PACKET_TRACKPOINT
        ELSE IF ~sanity_check THEN PACKET_UNKNOWN
        ELSE CASE packet_type = 0 -> PACKET_V4_STATUS
               [] packet_type = 1 -> PACKET_V4_HEAD
               [] packet_type = 2 -> PACKET_V4_MOTION
               [] OTHER -> PACKET_UNKNOWN

\* leftButton = packet[0] & 0x1; rightButton = packet[0] & 0x2
SetButtons(d, packet) ==
    [ d EXCEPT !.buttons.left = BitAnd(Byte(packet, 0), 1),
               !.buttons.right = BitAnd(Byte(packet, 0), 2) ]

processPacketStatusV4(d0, packet, timestamp) ==
    LET d == SetButtons(d0, packet)
        fingers == BitAnd(Byte(packet, 1), 31)
        present(i) == BitAnd(fingers, Pow2(i)) # 0
        count == Cardinality({ i \in Slots : present(i) })
    IN  IF IS_ETD0180(d) /\ fingers = 0
        THEN sendTouchData(
                 [ d EXCEPT !.virtualFinger =
                     [ i \in Slots |-> [ d.virtualFinger[i] EXCEPT !.touch = FALSE ] ] ],
                 timestamp)
        ELSE LET d1 == [ d EXCEPT
                           !.virtualFinger =
                               [ i \in Slots |->
                                   [ d.virtualFinger[i] EXCEPT !.touch = present(i) ] ],
                           !.heldFingers = count,
                           !.headPacketsCount = 0 ]
             IN  IF count = 0 THEN sendTouchData(d1, timestamp) ELSE d1

processPacketHeadV4(d0, packet, timestamp) ==
    LET raw_id == Shr(BitAnd(Byte(packet, 3), 224), 5) - 1
        id == IF IS_ETD0180(d0) /\ (raw_id < 0 \/ raw_id >= ETP_MAX_FINGERS)
              THEN 0 ELSE raw_id
        d == [ SetButtons(d0, packet) EXCEPT
                 !.headPacketsCount = d0.headPacketsCount + 1 ]
    IN  IF id < 0 \/ id >= ETP_MAX_FINGERS THEN d
        ELSE
        LET x == BitOr(Shl(BitAnd(Byte(packet, 1), 15), 8), Byte(packet, 2))
            y == d.info.y_max
                 - BitOr(Shl(BitAnd(Byte(packet, 4), 15), 8), Byte(packet, 5))
            pres == BitOr(BitAnd(Byte(packet, 1), 240),
                          Shr(BitAnd(Byte(packet, 4), 240), 4))
            traces == Shr(BitAnd(Byte(packet, 0), 240), 4)
            f == d.virtualFinger[id]
            d1 == [ d EXCEPT !.virtualFinger[id] =
                      [ f EXCEPT !.button = BitAnd(Byte(packet, 0), 3),
                                 !.prev = f.now,
                                 !.pressure = pres,
                                 !.width = traces,
                                 !.touch = TRUE,
                                 !.now = [ x |-> x, y |-> y ] ] ]
        IN  IF IS_ETD0180(d1) THEN sendTouchData(d1, timestamp)
            ELSE IF d1.headPacketsCount = d1.heldFingers
                 THEN sendTouchData([ d1 EXCEPT !.headPacketsCount = 0 ], timestamp)
                 ELSE d1

\* the delta applied as it is, whatever the weight
MoveFingerUnweighted(d, id, packet, delta_x, delta_y, weight) ==
    IF id >= ETP_MAX_FINGERS THEN [ d EXCEPT !.outOfBounds = TRUE ]
    ELSE LET f == d.virtualFinger[id]
         IN  [ d EXCEPT !.virtualFinger[id] =
                 [ f EXCEPT !.button = BitAnd(Byte(packet, 0), 3),
                            !.prev = f.now,
                            !.now = [ x |-> f.now.x + delta_x,
                                      y |-> f.now.y - delta_y ] ] ]

\* virtualFinger[id] updated by a motion delta; an id beyond the array is an
\* access outside virtualFinger[], recorded in outOfBounds
MoveFinger(d, id, packet, delta_x, delta_y, weight) ==
    IF id >= ETP_MAX_FINGERS THEN [ d EXCEPT !.outOfBounds = TRUE ]
    ELSE LET f == d.virtualFinger[id]
         IN  [ d EXCEPT !.virtualFinger[id] =
                 [ f EXCEPT !.button = BitAnd(Byte(packet, 0), 3),
                            !.prev = f.now,
                            !.now = [ x |-> f.now.x + delta_x * weight,
                                      y |-> f.now.y - delta_y * weight ] ] ]

processPacketMotionV4(d0, packet, timestamp) ==
    LET d == SetButtons(d0, packet)
        id == Shr(BitAnd(Byte(packet, 0), 224), 5) - 1
        sid == Shr(BitAnd(Byte(packet, 3), 224), 5) - 1
        weight == IF BitAnd(Byte(packet, 0), 16) # 0 THEN ETP_WEIGHT_VALUE ELSE 1
        delta_x1 == SignedChar(Byte(packet, 1))
        delta_y1 == SignedChar(Byte(packet, 2))
        delta_x2 == SignedChar(Byte(packet, 4))
        delta_y2 == SignedChar(Byte(packet, 5))
    IN  IF id < 0 THEN d
        ELSE LET d1 == MoveFinger(d, id, packet, delta_x1, delta_y1, weight)
                 d2 == IF sid >= 0
                       THEN MoveFinger(d1, sid, packet, delta_x2, delta_y2, weight)
                       ELSE d1
             IN  sendTouchData(d2, timestamp)

elantechReportAbsoluteV4(d, packetType, packet, timestamp) ==
    CASE packetType = PACKET_V4_STATUS -> processPacketStatusV4(d, packet, timestamp)
      [] packetType = PACKET_V4_HEAD -> processPacketHeadV4(d, packet, timestamp)
      [] packetType = PACKET_V4_MOTION -> processPacketMotionV4(d, packet, timestamp)
      [] OTHER -> d

\* the first four bytes of the packet read as a little-endian UInt32 and
\* masked with ~7 match one of the four trackpoint signatures
TrackpointSignature(packet) ==
    << BitAnd(Byte(packet, 0), 248), Byte(packet, 1), Byte(packet, 2), Byte(packet, 3) >>
      \in { << 48, 0, 0, 6 >>, << 32, 128, 0, 22 >>,
            << 16, 0, 128, 38 >>, << 0, 128, 128, 54 >> }

elantechReportTrackpoint(d, packet) ==
    IF ~TrackpointSignature(packet) THEN d
    ELSE [ d EXCEPT !.keytime = 0 ]

(***************************************************************************)
(* Coordinate rescaler.                                                    *)
(***************************************************************************)
\* a / b for an unsigned 32-bit a and a positive b
UDiv(a, b) ==
    IF a >= 0 THEN a \div b
    ELSE 2 * (2147483647 \div b) + ((2 * (2147483647 % b) + 2 + a) \div b)

\* the maxima follow a coordinate below them as well
elantechRescaleNarrow(d, x, y) ==
    [ d EXCEPT !.info.x_max = IF ULt(x, d.info.x_max) THEN x ELSE d.info.x_max,
               !.info.y_max = IF ULt(y, d.info.y_max) THEN y ELSE d.info.y_max ]

\* a coordinate above the maximum moves the minimum
elantechRescaleSwapped(d, x, y) ==
    [ d EXCEPT !.info.x_min = IF ULt(d.info.x_max, x) THEN x ELSE d.info.x_min,
               !.info.y_min = IF ULt(d.info.y_max, y) THEN y ELSE d.info.y_min ]

\* the physical range is computed from the resolution whatever it is
elantechRescaleComputed(d, x, y) ==
    LET x_max == IF ULt(d.info.x_max, x) THEN x ELSE d.info.x_max
        x_min == IF ULt(x, d.info.x_min) THEN x ELSE d.info.x_min
        y_max == IF ULt(d.info.y_max, y) THEN y ELSE d.info.y_max
        y_min == IF ULt(y, d.info.y_min) THEN y ELSE d.info.y_min
        needs_update == ULt(d.info.x_max, x) \/ ULt(x, d.info.x_min)
                        \/ ULt(d.info.y_max, y) \/ ULt(y, d.info.y_min)
        physical_max_x == UDiv((x_max - x_min + 1) * 100, d.info.x_res)
        physical_max_y == UDiv((y_max - y_min + 1) * 100, d.info.y_res)
    IN  IF ~needs_update THEN d
        ELSE [ d EXCEPT
                 !.info.x_max = x_max, !.info.x_min = x_min,
                 !.info.y_max = y_max, !.info.y_min = y_min,
                 !.exported = [ logical_max_x |-> x_max - x_min,
                                logical_max_y |-> y_max - y_min,
                                physical_max_x |-> physical_max_x,
                                physical_max_y |-> physical_max_y ],
                 !.out = IF d.voodooInputInstance
                         THEN Append(d.out, [ type |-> "dimensions",
                                              min_x |-> x_min, max_x |-> x_max,
                                              min_y |-> y_min, max_y |-> y_max ])
                         ELSE d.out ]

elantechRescale(d, x, y) ==
    LET x_max == IF ULt(d.info.x_max, x) THEN x ELSE d.info.x_max
        x_min == IF ULt(x, d.info.x_min) THEN x ELSE d.info.x_min
        y_max == IF ULt(d.info.y_max, y) THEN y ELSE d.info.y_max
        y_min == IF ULt(y, d.info.y_min) THEN y ELSE d.info.y_min
        needs_update == ULt(d.info.x_max, x) \/ ULt(x, d.info.x_min)
                        \/ ULt(d.info.y_max, y) \/ ULt(y, d.info.y_min)
        physical_max_x == IF d.info.x_res = 6 THEN 70620
                          ELSE UDiv((x_max - x_min + 1) * 100, d.info.x_res)
        physical_max_y == IF d.info.x_res = 6 THEN 70620
                          ELSE UDiv((y_max - y_min + 1) * 100, d.info.y_res)
    IN  IF ~needs_update THEN d
        ELSE [ d EXCEPT
                 !.info.x_max = x_max, !.info.x_min = x_min,
                 !.info.y_max = y_max, !.info.y_min = y_min,
                 !.exported = [ logical_max_x |-> x_max - x_min,
                                logical_max_y |-> y_max - y_min,
                                physical_max_x |-> physical_max_x,
                                physical_max_y |-> physical_max_y ],
                 !.out = IF d.voodooInputInstance
                         THEN Append(d.out, [ type |-> "dimensions",
                                              min_x |-> x_min, max_x |-> x_max,
                                              min_y |-> y_min, max_y |-> y_max ])
                         ELSE d.out ]

(***************************************************************************)
(* Hardware versions 1, 2 and 3: validity checks and absolute reports.     *)
(***************************************************************************)
\* etd.parity[i], as elantechSetupPS2 fills the table
RECURSIVE Parity(_)
Parity(i) == IF i = 0 THEN 1 ELSE 1 - Parity(BitAnd(i, i - 1))

\* etd.parity[i]: zero until elantechSetupPS2 has filled the table
\* (d.etd.parity records that it has)
EtdParity(d, i) == IF d.etd.parity THEN Parity(i) ELSE 0

elantechDebounceCheckV2(packet) ==
    packet = << 132, 255, 255, 2, 255, 255 >>

elantechPacketCheckV1(d, packet) ==
    LET old == d.info.fw_version < 131072
        p1 == IF old THEN Shr(BitAnd(Byte(packet, 0), 32), 5)
                     ELSE Shr(BitAnd(Byte(packet, 0), 16), 4)
        p2 == IF old THEN Shr(BitAnd(Byte(packet, 0), 16), 4)
                     ELSE Shr(BitAnd(Byte(packet, 0), 32), 5)
        p3 == Shr(BitAnd(Byte(packet, 0), 4), 2)
    IN  /\ EtdParity(d, Byte(packet, 1)) = p1
        /\ EtdParity(d, Byte(packet, 2)) = p2
        /\ EtdParity(d, Byte(packet, 3)) = p3

elantechPacketCheckV2(d, packet) ==
    IF d.info.reports_pressure
    THEN BitAnd(Byte(packet, 0), 12) = 4 /\ BitAnd(Byte(packet, 3), 15) = 2
    ELSE IF BitAnd(Byte(packet, 0), 192) = 128
    THEN BitAnd(Byte(packet, 0), 12) = 12 /\ BitAnd(Byte(packet, 3), 14) = 8
    ELSE /\ BitAnd(Byte(packet, 0), 60) = 60
         /\ BitAnd(Byte(packet, 1), 240) = 0
         /\ BitAnd(Byte(packet, 3), 62) = 56
         /\ BitAnd(Byte(packet, 4), 240) = 0

\* the debounce packet is compared after the Head and Tail signatures
elantechPacketCheckV3HeadFirst(d, packet) ==
    IF d.info.crc_enabled
    THEN IF BitAnd(Byte(packet, 3), 9) = 8 THEN PACKET_V3_HEAD
         ELSE IF BitAnd(Byte(packet, 3), 9) = 9 THEN PACKET_V3_TAIL
         ELSE IF packet = << 196, 255, 255, 2, 255, 255 >> THEN PACKET_DEBOUNCE
         ELSE PACKET_UNKNOWN
    ELSE IF BitAnd(Byte(packet, 0), 12) = 4 /\ BitAnd(Byte(packet, 3), 207) = 2
         THEN PACKET_V3_HEAD
         ELSE IF BitAnd(Byte(packet, 0), 12) = 12 /\ BitAnd(Byte(packet, 3), 206) = 12
         THEN PACKET_V3_TAIL
         ELSE IF packet = << 196, 255, 255, 2, 255, 255 >> THEN PACKET_DEBOUNCE
         ELSE IF BitAnd(Byte(packet, 3), 15) = 6 THEN PACKET_TRACKPOINT
         ELSE PACKET_UNKNOWN

elantechPacketCheckV3(d, packet) ==
    IF packet = << 196, 255, 255, 2, 255, 255 >> THEN PACKET_DEBOUNCE
    ELSE IF d.info.crc_enabled
    THEN IF BitAnd(Byte(packet, 3), 9) = 8 THEN PACKET_V3_HEAD
         ELSE IF BitAnd(Byte(packet, 3), 9) = 9 THEN PACKET_V3_TAIL
         ELSE PACKET_UNKNOWN
    ELSE IF BitAnd(Byte(packet, 0), 12) = 4 /\ BitAnd(Byte(packet, 3), 207) = 2
         THEN PACKET_V3_HEAD
         ELSE IF BitAnd(Byte(packet, 0), 12) = 12 /\ BitAnd(Byte(packet, 3), 206) = 12
         THEN PACKET_V3_TAIL
         ELSE IF BitAnd(Byte(packet, 3), 15) = 6 THEN PACKET_TRACKPOINT
         ELSE PACKET_UNKNOWN

\* the synthetic multi-finger triangle: h, (int)(sin30deg * h), (int)(cos30deg * h)
TRIANGLE_H == 100
TRIANGLE_DY == 50
TRIANGLE_DX == 86

\* prev follows the old now whether or not the finger count has changed
TouchSlotContinuing(vf, i, b, x, y, fresh) ==
    [ vf EXCEPT ![i] = [ @ EXCEPT !.touch = TRUE,
                                  !.button = b,
                                  !.prev = vf[i].now,
                                  !.now = [ x |-> x, y |-> y ] ] ]

\* slot i of vf touched at (x, y) by a packet with button bits b; prev follows
\* now, and is now itself when the finger count has changed (fresh)
TouchSlot(vf, i, b, x, y, fresh) ==
    [ vf EXCEPT ![i] = [ @ EXCEPT !.touch = TRUE,
                                  !.button = b,
                                  !.prev = IF fresh THEN [ x |-> x, y |-> y ] ELSE vf[i].now,
                                  !.now = [ x |-> x, y |-> y ] ] ]

\* the touch flags left as the previous packet set them
KeepTouch012(vf) == vf

\* virtualFinger[0..2].touch = false
ClearTouch012(vf) ==
    [ i \in Slots |-> IF i <= 2 THEN [ vf[i] EXCEPT !.touch = FALSE ] ELSE vf[i] ]

\* three synthetic fingers laid out as the two of a two-finger report are:
\* the second to the right of x as well
ThreeFingersRight(vf, b, x, y, fresh) ==
    TouchSlot(
      TouchSlot(
        TouchSlot(vf, 0, b, x, y - TRIANGLE_H, fresh),
        1, b, x + TRIANGLE_DX, y + TRIANGLE_DY, fresh),
      2, b, x + TRIANGLE_DX, y + TRIANGLE_DY, fresh)

\* the three synthetic fingers of a three-finger report at (x, y)
ThreeFingers(vf, b, x, y, fresh) ==
    TouchSlot(
      TouchSlot(
        TouchSlot(vf, 0, b, x, y - TRIANGLE_H, fresh),
        1, b, x - TRIANGLE_DX, y + TRIANGLE_DY, fresh),
      2, b, x + TRIANGLE_DX, y + TRIANGLE_DY, fresh)

\* the first single-finger report alone is discarded
DiscardsFirstReport(d, fingers) ==
    d.info.jumpy_cursor /\ fingers = 1 /\ d.etd.single_finger_reports < 1

\* a jumpy cursor: the first two reports of one finger are bogus
DiscardsReport(d, fingers) ==
    d.info.jumpy_cursor /\ fingers = 1 /\ d.etd.single_finger_reports < 2

elantechReportAbsoluteV1(d, packet, timestamp) ==
    LET fingers ==
            IF d.info.fw_version < 131072
            THEN Shr(BitAnd(Byte(packet, 1), 128), 7) + Shr(BitAnd(Byte(packet, 1), 48), 4)
            ELSE Shr(BitAnd(Byte(packet, 0), 192), 6)
        discard == DiscardsReport(d, fingers)
        reports == IF ~d.info.jumpy_cursor THEN d.etd.single_finger_reports
                   ELSE IF fingers # 1 THEN 0
                   ELSE IF d.etd.single_finger_reports < 2
                        THEN d.etd.single_finger_reports + 1
                        ELSE d.etd.single_finger_reports
        d1 == [ d EXCEPT !.etd.single_finger_reports = reports ]
        x == BitOr(Shl(BitAnd(Byte(packet, 1), 12), 6), Byte(packet, 2))
        y == d.info.y_max - BitOr(Shl(BitAnd(Byte(packet, 1), 3), 8), Byte(packet, 3))
        b == BitAnd(Byte(packet, 0), 3)
        vf0 == ClearTouch012(d.virtualFinger)
        vf1 == CASE fingers = 1 -> TouchSlot(vf0, 0, b, x, y, d.lastFingers # 1)
                 [] fingers = 2 ->
                      TouchSlot(
                        TouchSlot(vf0, 0, b, x, y - TRIANGLE_H, d.lastFingers # 2),
                        1, b, x + TRIANGLE_DX, y + TRIANGLE_DY, d.lastFingers # 2)
                 [] fingers = 3 -> ThreeFingers(vf0, b, x, y, d.lastFingers # 3)
                 [] OTHER -> vf0
    IN  IF discard THEN d1
        ELSE sendTouchData(
                 [ SetButtons(d1, packet) EXCEPT !.virtualFinger = vf1,
                                                 !.lastFingers = fingers ],
                 timestamp)

elantechReportAbsoluteV2(d, packet, timestamp) ==
    LET fingers == Shr(BitAnd(Byte(packet, 0), 192), 6)
        one == fingers = 1 \/ fingers = 3
        x1 == IF one THEN BitOr(Shl(BitAnd(Byte(packet, 1), 15), 8), Byte(packet, 2))
              ELSE IF fingers = 2
              THEN Shl(BitOr(Shl(BitAnd(Byte(packet, 0), 16), 4), Byte(packet, 1)), 2)
              ELSE 0
        y1 == IF one
              THEN d.info.y_max
                   - BitOr(Shl(BitAnd(Byte(packet, 4), 15), 8), Byte(packet, 5))
              ELSE IF fingers = 2
              THEN d.info.y_max
                   - Shl(BitOr(Shl(BitAnd(Byte(packet, 0), 32), 3), Byte(packet, 2)), 2)
              ELSE 0
        x2 == Shl(BitOr(Shl(BitAnd(Byte(packet, 3), 16), 4), Byte(packet, 4)), 2)
        y2 == d.info.y_max
              - Shl(BitOr(Shl(BitAnd(Byte(packet, 3), 32), 3), Byte(packet, 5)), 2)
        b == BitAnd(Byte(packet, 0), 3)
        vf0 == ClearTouch012(d.virtualFinger)
        vf1 == CASE fingers = 1 ->
                      TouchSlot(vf0, 0, b, x1, y1, d.lastFingers # 1 /\ d.lastFingers # 2)
                 [] fingers = 2 ->
                      TouchSlot(
                        TouchSlot(vf0, 0, b, x1, y1,
                                  d.lastFingers # 1 /\ d.lastFingers # 2),
                        1, b, x2, y2, d.lastFingers # 2)
                 [] fingers = 3 -> ThreeFingers(vf0, b, x1, y1, d.lastFingers # 3)
                 [] OTHER -> vf0
    IN  sendTouchData(
            [ SetButtons(d, packet) EXCEPT !.virtualFinger = vf1,
                                           !.lastFingers = fingers ],
            timestamp)

\* the pair of a two-finger head put through the rescaler before it is kept
StageHeadRescaled(d, px, py) ==
    [ elantechRescale(d, px, py) EXCEPT
        !.etd.mt0 = [ x |-> px, y |-> elantechRescale(d, px, py).info.y_max - py ] ]

\* etd.mt[0] of a two-finger head: the pair as decoded, y against y_max
StageHead(d, px, py) ==
    [ d EXCEPT !.etd.mt0 = [ x |-> px, y |-> d.info.y_max - py ] ]

elantechReportAbsoluteV3(d, packetType, packet, timestamp) ==
    LET fingers == Shr(BitAnd(Byte(packet, 0), 192), 6)
        px == BitOr(Shl(BitAnd(Byte(packet, 1), 15), 8), Byte(packet, 2))
        py == BitOr(Shl(BitAnd(Byte(packet, 4), 15), 8), Byte(packet, 5))
        b == BitAnd(Byte(packet, 0), 3)
    IN
    IF fingers = 2 /\ packetType = PACKET_V3_HEAD
    THEN StageHead(d, px, py)
    ELSE
    LET d1 == IF fingers \in { 1, 2, 3 } THEN elantechRescale(d, px, py) ELSE d
        inverted == d1.info.y_max - py
        x1 == CASE fingers \in { 1, 3 } -> px
                [] fingers = 2 -> d.etd.mt0.x
                [] OTHER -> 0
        y1 == CASE fingers \in { 1, 3 } -> inverted
                [] fingers = 2 -> d.etd.mt0.y
                [] OTHER -> 0
        vf0 == ClearTouch012(d1.virtualFinger)
        vf1 == CASE fingers = 1 ->
                      TouchSlot(vf0, 0, b, x1, y1, d.lastFingers # 1 /\ d.lastFingers # 2)
                 [] fingers = 2 ->
                      TouchSlot(
                        TouchSlot(vf0, 0, b, x1, y1,
                                  d.lastFingers # 1 /\ d.lastFingers # 2),
                        1, b, px, inverted, d.lastFingers # 2)
                 [] fingers = 3 -> ThreeFingers(vf0, b, x1, y1, d.lastFingers # 3)
                 [] OTHER -> vf0
    IN  sendTouchData(
            [ SetButtons(d1, packet) EXCEPT !.virtualFinger = vf1,
                                            !.lastFingers = fingers ],
            timestamp)

(***************************************************************************)
(* Packet reassembly: _ringBuffer, interruptOccurred and packetReady.      *)
(***************************************************************************)
kPS2IR_packetReady == "kPS2IR_packetReady"
kPS2IR_packetBuffering == "kPS2IR_packetBuffering"

\* an empty ring: RingBuffer::reset()
ResetRing(ring) == [ ring EXCEPT !.head = 0, !.tail = 0, !.count = 0 ]

EmptyRing ==
    [ buffer |-> [ i \in 0 .. (RingCapacity - 1) |-> 0 ],
      head |-> 0, tail |-> 0, count |-> 0 ]

\* RingBuffer::advanceHead(n), RingBuffer::advanceTail(n)
AdvanceHead(ring, n) ==
    [ ring EXCEPT !.head = (ring.head + n) % RingCapacity, !.count = ring.count + n ]

AdvanceTail(ring, n) ==
    [ ring EXCEPT !.tail = (ring.tail + n) % RingCapacity, !.count = ring.count - n ]

\* the n bytes at RingBuffer::tail()
TailPacket(ring, n) ==
    [ i \in 1 .. n |-> ring.buffer[(ring.tail + i - 1) % RingCapacity] ]

\* every byte written at the head, whatever _packetByteCount is
interruptOccurredAtHead(d, data) ==
    LET written == [ d EXCEPT !.ringBuffer.buffer[d.ringBuffer.head] = data,
                              !.packetByteCount = d.packetByteCount + 1 ]
    IN  IF written.packetByteCount = d.packetLength
        THEN [ driver |-> [ written EXCEPT
                              !.ringBuffer = AdvanceHead(written.ringBuffer,
                                                         d.packetLength),
                              !.packetByteCount = 0 ],
               result |-> "kPS2IR_packetReady" ]
        ELSE [ driver |-> written, result |-> "kPS2IR_packetBuffering" ]

\* the driver after interruptOccurred(data), and what the call returned
interruptOccurred(d, data) ==
    LET at == (d.ringBuffer.head + d.packetByteCount) % RingCapacity
        written == [ d EXCEPT !.ringBuffer.buffer[at] = data,
                              !.packetByteCount = d.packetByteCount + 1 ]
    IN  IF written.packetByteCount = d.packetLength
        THEN [ driver |-> [ written EXCEPT
                              !.ringBuffer = AdvanceHead(written.ringBuffer,
                                                         d.packetLength),
                              !.packetByteCount = 0 ],
               result |-> kPS2IR_packetReady ]
        ELSE [ driver |-> written, result |-> kPS2IR_packetBuffering ]

\* the body of packetReady's loop: the packet at the tail is classified and
\* handed to the handler of the hardware version
DispatchPacket(d, packet, timestamp) ==
    CASE d.info.hw_version = 1 ->
           IF d.info.paritycheck /\ ~elantechPacketCheckV1(d, packet)
           THEN [ d EXCEPT !.lastPacketType = PACKET_UNKNOWN ]
           ELSE elantechReportAbsoluteV1(
                    [ d EXCEPT !.lastPacketType = "PACKET_V1" ], packet, timestamp)
      [] d.info.hw_version = 2 ->
           IF elantechDebounceCheckV2(packet)
           THEN [ d EXCEPT !.lastPacketType = PACKET_DEBOUNCE ]
           ELSE IF d.info.paritycheck /\ ~elantechPacketCheckV2(d, packet)
           THEN [ d EXCEPT !.lastPacketType = PACKET_UNKNOWN ]
           ELSE elantechReportAbsoluteV2(
                    [ d EXCEPT !.lastPacketType = "PACKET_V2" ], packet, timestamp)
      [] d.info.hw_version = 3 ->
           LET packetType == elantechPacketCheckV3(d, packet)
               d1 == [ d EXCEPT !.lastPacketType = packetType ]
           IN  CASE packetType \in { PACKET_UNKNOWN, PACKET_DEBOUNCE } -> d1
                 [] packetType = PACKET_TRACKPOINT -> elantechReportTrackpoint(d1, packet)
                 [] OTHER -> elantechReportAbsoluteV3(d1, packetType, packet, timestamp)
      [] d.info.hw_version = 4 ->
           LET packetType == elantechPacketCheckV4(d, packet)
               d1 == [ d EXCEPT !.lastPacketType = packetType ]
           IN  CASE packetType = PACKET_UNKNOWN -> d1
                 [] packetType = PACKET_TRACKPOINT -> elantechReportTrackpoint(d1, packet)
                 [] OTHER -> elantechReportAbsoluteV4(d1, packetType, packet, timestamp)
      [] OTHER -> d

\* one packet is taken from the ring and the rest is left for the next call
packetReadyOnce(d, timestamp) ==
    IF d.ringBuffer.count < d.packetLength THEN d
    ELSE LET packet == TailPacket(d.ringBuffer, d.packetLength)
             d1 == IF d.ignoreall THEN d ELSE DispatchPacket(d, packet, timestamp)
         IN  [ d1 EXCEPT !.ringBuffer = AdvanceTail(d1.ringBuffer, d.packetLength) ]

RECURSIVE packetReady(_, _)
packetReady(d, timestamp) ==
    IF d.ringBuffer.count < d.packetLength THEN d
    ELSE LET packet == TailPacket(d.ringBuffer, d.packetLength)
             d1 == IF d.ignoreall THEN d ELSE DispatchPacket(d, packet, timestamp)
         IN  packetReady(
                 [ d1 EXCEPT !.ringBuffer = AdvanceTail(d1.ringBuffer, d.packetLength) ],
                 timestamp)

(***************************************************************************)
(* Negotiation.  A device is what the touchpad answers: the three bytes of *)
(* each query, the register read back, and the exchanges that fail.        *)
(***************************************************************************)
ETP_R10_ABSOLUTE_MODE == 4
ETP_READ_BACK_TRIES == 5
ETP_XMIN_V1 == 0
ETP_XMAX_V1 == 576
ETP_YMIN_V1 == 0
ETP_YMAX_V1 == 384
ETP_XMIN_V2 == 0
ETP_XMAX_V2 == 1152
ETP_YMIN_V2 == 0
ETP_YMAX_V2 == 768

\* a / b as C computes it for ints: truncated toward zero (b > 0)
TruncDiv(a, b) == IF a >= 0 THEN a \div b ELSE -((-a) \div b)

\* attempts of the retrying command exchange; the value is that of elantech.h
ETP_PS2_COMMAND_TRIES == 3

(***************************************************************************)
(* The PS/2 port.  Every request the driver submits to the controller and  *)
(* every call it makes to the kernel in between is appended to trace.  An  *)
(* exchange is a pair << name, n >>: the n-th exchange of that name in the *)
(* step.  The device decides which exchanges fail.                         *)
(***************************************************************************)
Entry(fn, exchange, command, data, failed) ==
    [ fn |-> fn, exchange |-> exchange, command |-> command, data |-> data,
      failed |-> failed ]

Traced(d, e) == [ d EXCEPT !.trace = Append(@, e) ]

\* the exchanges of the trace that carry the name
ExchangesOf(tr, name) ==
    { tr[i].exchange : i \in { j \in 1 .. Len(tr) : tr[j].exchange[1] = name } }

\* the exchange the driver begins now
NextExchange(d, name) == << name, 1 + Cardinality(ExchangesOf(d.trace, name)) >>

\* the device leaves the last request of the exchange unanswered
Failing(dev, exchange) ==
    \/ exchange[1] \in dev.fails
    \/ exchange \in dev.once
    \/ exchange[1] = "read" /\ exchange[2] <= dev.read_failures

\* ps2_command<I>(params, command): one request; 0 when every byte came back
ps2_command(d, exchange, command, data, failed) ==
    [ rc |-> IF failed THEN 1 ELSE 0,
      driver |-> Traced(d, Entry("ps2_command", exchange, command, data, failed)) ]

\* the loop of elantech_ps2_command: the device leaves the first dev.nacks
\* attempts of a retried command unanswered
RECURSIVE RetryCommand(_, _, _, _, _, _, _, _)
RetryCommand(d, dev, exchange, command, data, hard, tries, attempt) ==
    LET GiveUpOrRetry(rc, slept) ==
            IF tries - 1 > 0
            THEN RetryCommand(slept, dev, exchange, command, data, hard, tries - 1,
                              attempt + 1)
            ELSE [ rc |-> rc, driver |-> slept ]
        Attempted(r) ==
            IF r.rc = 0 THEN r
            ELSE GiveUpOrRetry(r.rc,
                     Traced(r.driver,
                            Entry("IOSleep", exchange, "ETP_PS2_COMMAND_DELAY", 0, FALSE)))
    IN  Attempted(ps2_command(d, exchange, command, data, hard \/ attempt <= dev.nacks))

\* a loop that makes one attempt more
elantech_ps2_command_once_more(d, dev, exchange, command, data, hard) ==
    RetryCommand(d, dev, exchange, command, data, hard, ETP_PS2_COMMAND_TRIES + 1, 1)

elantech_ps2_command(d, dev, exchange, command, data, hard) ==
    RetryCommand(d, dev, exchange, command, data, hard, ETP_PS2_COMMAND_TRIES, 1)

\* one request of nine commands: scaling, then four times resolution and two bits
ps2_sliced_command(d, exchange, command, data, failed) ==
    [ rc |-> IF failed THEN 1 ELSE 0,
      driver |-> Traced(d, Entry("ps2_sliced_command", exchange, command, data, failed)) ]

Cmd(fn, command, data, hard) ==
    [ fn |-> fn, command |-> command, data |-> data, hard |-> hard ]

\* a || b || c ... : the commands in order, up to the first that fails
RECURSIVE AnyFails(_, _, _, _)
AnyFails(d, dev, exchange, cmds) ==
    LET Sent(c) ==
            CASE c.fn = "elantech_ps2_command" ->
                   elantech_ps2_command(d, dev, exchange, c.command, c.data, c.hard)
              [] c.fn = "ps2_sliced_command" ->
                   ps2_sliced_command(d, exchange, c.command, c.data, c.hard)
              [] OTHER -> ps2_command(d, exchange, c.command, c.data, c.hard)
        OrNext(r) ==
            IF r.rc # 0 THEN [ rc |-> 1, driver |-> r.driver ]
            ELSE AnyFails(r.driver, dev, exchange, Tail(cmds))
    IN  IF cmds = << >> THEN [ rc |-> 0, driver |-> d ]
        ELSE OrNext(Sent(Head(cmds)))

synaptics_send_cmd(d, dev, name, c) ==
    LET Returned(r) == [ rc |-> IF r.rc # 0 THEN -1 ELSE 0, driver |-> r.driver ]
        Sent(x) ==
            AnyFails(d, dev, x,
                << Cmd("ps2_sliced_command", c, 0, FALSE),
                   Cmd("ps2_command", "kDP_GetMouseInformation", 0, Failing(dev, x)) >>)
    IN  Returned(Sent(NextExchange(d, name)))

elantech_send_cmd(d, dev, name, c) ==
    LET Returned(r) == [ rc |-> IF r.rc # 0 THEN -1 ELSE 0, driver |-> r.driver ]
        Sent(x) ==
            AnyFails(d, dev, x,
                << Cmd("ps2_command", "ETP_PS2_CUSTOM_COMMAND", 0, FALSE),
                   Cmd("ps2_command", c, 0, FALSE),
                   Cmd("ps2_command", "kDP_GetMouseInformation", 0, Failing(dev, x)) >>)
    IN  Returned(Sent(NextExchange(d, name)))

\* the query whose result is taken for success whatever the device did
send_cmd_unchecked(d, dev, name, c) ==
    LET Unchecked(r) == [ r EXCEPT !.rc = 0 ]
    IN  IF d.info.hw_version >= 3
        THEN Unchecked(elantech_send_cmd(d, dev, name, c))
        ELSE Unchecked(synaptics_send_cmd(d, dev, name, c))

send_cmd(d, dev, name, c) ==
    IF d.info.hw_version >= 3 THEN elantech_send_cmd(d, dev, name, c)
    ELSE synaptics_send_cmd(d, dev, name, c)

\* the revision exception taken up to and including 40
elantech_is_signature_valid_upto40(param) ==
    IF Byte(param, 0) = 0 THEN FALSE
    ELSE IF Byte(param, 1) = 0 THEN TRUE
    ELSE IF /\ BitAnd(Byte(param, 0), 15) >= 6
            /\ BitAnd(Byte(param, 1), 175) = 15
            /\ Byte(param, 2) <= 40
    THEN TRUE
    ELSE Byte(param, 2) \notin { 200, 100, 80, 60, 40, 20, 10 }

elantech_is_signature_valid(param) ==
    IF Byte(param, 0) = 0 THEN FALSE
    ELSE IF Byte(param, 1) = 0 THEN TRUE
    ELSE IF /\ BitAnd(Byte(param, 0), 15) >= 6
            /\ BitAnd(Byte(param, 1), 175) = 15
            /\ Byte(param, 2) < 40
    THEN TRUE
    ELSE Byte(param, 2) \notin { 200, 100, 80, 60, 40, 20, 10 }

elantech_convert_res(val) == ((val * 10 + 790) * 10) \div 254

\* the knock result compared without its third byte
UnexpectedKnockTwoBytes(param) ==
    Byte(param, 0) # 60 \/ Byte(param, 1) # 3

\* "unexpected magic knock result"
UnexpectedKnock(param) ==
    \/ Byte(param, 0) # 60
    \/ Byte(param, 1) # 3
    \/ (Byte(param, 2) # 200 /\ Byte(param, 2) # 0)

\* 0 on success, -1 on failure, as the C functions return.  A device may
\* fail the knock at its first command, at its first scaling command or at
\* the read of the answer.
elantechDetect(d, dev) ==
    LET Knock(x) ==
            AnyFails(d, dev, x,
                << Cmd("ps2_command", "kDP_SetDefaults", 0, "knock_defaults" \in dev.fails),
                   Cmd("ps2_command", "kDP_SetDefaultsAndDisable", 0, FALSE),
                   Cmd("ps2_command", "kDP_SetMouseScaling1To1", 0,
                       "knock_scaling" \in dev.fails),
                   Cmd("ps2_command", "kDP_SetMouseScaling1To1", 0, FALSE),
                   Cmd("ps2_command", "kDP_SetMouseScaling1To1", 0, FALSE),
                   Cmd("ps2_command", "kDP_GetMouseInformation", 0, Failing(dev, x)) >>)
        Versioned(version) ==
            IF version.rc # 0 THEN version
            ELSE IF ~elantech_is_signature_valid(dev.version)
            THEN [ rc |-> -1, driver |-> version.driver ]
            ELSE [ rc |-> 0, driver |-> version.driver ]
        Knocked(knock) ==
            IF knock.rc # 0 THEN [ rc |-> -1, driver |-> knock.driver ]
            ELSE IF UnexpectedKnock(dev.knock)
            THEN [ rc |-> -1, driver |-> knock.driver ]
            ELSE Versioned(synaptics_send_cmd(knock.driver, dev, "version",
                                              "ETP_FW_VERSION_QUERY"))
    IN  Knocked(Knock(NextExchange(d, "knock")))

\* the version taken from the IC body alone, early firmware included
HardwareVersionByBody(fw) ==
    LET ver == Shr(BitAnd(fw, 983040), 16)
    IN  IF fw < 131120 THEN 1
        ELSE CASE ver \in { 2, 4 } -> 2
               [] ver = 5 -> 3
               [] ver \in 6 .. 15 -> 4
               [] OTHER -> 0

\* the hardware version elantechSetProperties derives; 0 where it returns -1
HardwareVersion(fw) ==
    LET ver == Shr(BitAnd(fw, 983040), 16)
    IN  IF fw < 131120 \/ fw = 132608 THEN 1
        ELSE CASE ver \in { 2, 4 } -> 2
               [] ver = 5 -> 3
               [] ver \in 6 .. 15 -> 4
               [] OTHER -> 0

elantechSetProperties(d) ==
    LET fw == d.info.fw_version
        hw == HardwareVersion(fw)
    IN  IF hw = 0 THEN [ rc |-> -1, driver |-> d ]
        ELSE [ rc |-> 0,
               driver |->
                 [ d EXCEPT
                     !.info.hw_version = hw,
                     !.info.paritycheck = TRUE,
                     !.info.jumpy_cursor = (fw = 131106 \/ fw = 132608),
                     !.info.debug = IF hw > 1 THEN 1 ELSE @,
                     !.info.reports_pressure =
                         IF hw > 1 /\ fw >= 133120 THEN TRUE ELSE @,
                     !.info.crc_enabled = (BitAnd(fw, 16384) = 16384),
                     !.info.set_hw_resolution = d.config.set_hw_resolution,
                     !.packetLength = IF hw = 1 THEN 4 ELSE 6 ] ]

\* the range information of elantechQueryInfo's switch on hw_version
QueryRange(d, dev) ==
    LET fw == d.info.fw_version
        cap == d.info.capabilities
        hw == d.info.hw_version
        param == dev.fw_id
        idx == BitOr(Shl(BitAnd(15, Byte(param, 0)), 8), Byte(param, 1))
        idy == BitOr(Shl(BitAnd(240, Byte(param, 0)), 4), Byte(param, 2))
        Fixed(xmin, ymin, xmax, ymax) ==
            [ rc |-> 0,
              driver |-> [ d EXCEPT !.info.x_min = xmin, !.info.y_min = ymin,
                                    !.info.x_max = xmax, !.info.y_max = ymax ] ]
        Maxes(dd, xmax, ymax) ==
            [ rc |-> 0,
              driver |-> [ dd EXCEPT !.info.x_max = xmax, !.info.y_max = ymax ] ]
        Sampled(sample, i) ==
            IF sample.rc # 0 THEN sample
            ELSE Maxes(sample.driver,
                       TruncDiv((Byte(cap, 1) - i) * Byte(dev.samples, 1), 2),
                       TruncDiv((Byte(cap, 2) - i) * Byte(dev.samples, 2), 2))
        RangeV2(di, i) ==
            IF Shr(fw, 16) = 20 /\ BitAnd(Byte(param, 1), 16) # 0
            THEN Sampled(send_cmd(di, dev, "samples", "ETP_SAMPLE_QUERY"), i)
            ELSE IF fw = 262678 THEN Maxes(di, 819, 405)
            ELSE IF fw = 262681 \/ fw = 262677 THEN Maxes(di, 900, 500)
            ELSE Maxes(di, (Byte(cap, 1) - i) * 64, (Byte(cap, 2) - i) * 64)
        RangeV4(d1, traces, rows) ==
            IF traces < 2 \/ traces > idx THEN [ rc |-> -1, driver |-> d1 ]
            ELSE [ rc |-> 0,
                   driver |->
                     [ d1 EXCEPT
                         !.info.width = idx \div (traces - 1),
                         !.info.x_traces = traces,
                         !.info.y_traces =
                             IF rows >= 2 /\ rows <= idy THEN rows ELSE @ ] ]
        Identified(id) ==
            IF id.rc # 0 THEN id
            ELSE CASE hw = 2 ->
                        RangeV2(id.driver, IF fw > 133120 /\ fw < 133376 THEN 1 ELSE 2)
                   [] hw = 3 -> Maxes(id.driver, idx, idy)
                   [] OTHER ->
                        RangeV4([ id.driver EXCEPT !.info.x_max = idx, !.info.y_max = idy ],
                                Byte(cap, 1), Byte(cap, 2))
    IN
    CASE hw = 1 -> Fixed(ETP_XMIN_V1, ETP_YMIN_V1, ETP_XMAX_V1, ETP_YMAX_V1)
      [] hw = 2 /\ fw \in { 133120, 133888, 131120 } ->
           Fixed(ETP_XMIN_V2, ETP_YMIN_V2, ETP_XMAX_V2, ETP_YMAX_V2)
      [] hw \in { 2, 3, 4 } -> Identified(send_cmd(d, dev, "fw_id", "ETP_FW_ID_QUERY"))
      [] OTHER -> [ rc |-> 0, driver |-> d ]

elantechQueryInfo(d, dev) ==
    LET fw == BitOr(BitOr(Shl(Byte(dev.version, 0), 16), Shl(Byte(dev.version, 1), 8)),
                    Byte(dev.version, 2))
        res == dev.resolution
        Ranged(range) ==
            IF range.rc # 0 THEN range
            ELSE [ rc |-> 0,
                   driver |-> [ range.driver EXCEPT
                                  !.info.is_buttonpad = (BitAnd(fw, 4096) # 0) ] ]
        \* x_res = y_res = 31, then elantech_get_resolution_v4, its failure logged
        Resolved(resolution, v4) ==
            Ranged(QueryRange(
                [ resolution.driver EXCEPT
                    !.info.has_trackpoint = (BitAnd(Byte(dev.capabilities, 0), 128) = 128),
                    !.info.x_res =
                        IF v4 /\ IS_ETD0180(resolution.driver) THEN 6
                        ELSE IF v4 /\ resolution.rc = 0
                        THEN elantech_convert_res(BitAnd(Byte(res, 1), 15))
                        ELSE 31,
                    !.info.y_res =
                        IF v4 /\ IS_ETD0180(resolution.driver) THEN 6
                        ELSE IF v4 /\ resolution.rc = 0
                        THEN elantech_convert_res(Shr(BitAnd(Byte(res, 1), 240), 4))
                        ELSE 31,
                    !.info.bus = IF v4 /\ resolution.rc = 0 THEN Byte(res, 2) ELSE @ ],
                dev))
        Sampled(d3) ==
            IF Byte(d3.info.samples, 1) = 116 /\ d3.info.hw_version = 3
            THEN [ rc |-> -1, driver |-> d3 ]
            ELSE Resolved(IF d3.info.hw_version = 4
                          THEN elantech_send_cmd(d3, dev, "resolution",
                                                 "ETP_RESOLUTION_QUERY")
                          ELSE [ rc |-> 0, driver |-> d3 ],
                          d3.info.hw_version = 4)
        AfterSamples(samples, asked) ==
            IF samples.rc # 0 THEN samples
            ELSE Sampled(IF asked
                         THEN [ samples.driver EXCEPT !.info.samples = dev.samples ]
                         ELSE samples.driver)
        Capable(d2) ==
            AfterSamples(IF d2.info.hw_version # 1
                         THEN send_cmd(d2, dev, "samples", "ETP_SAMPLE_QUERY")
                         ELSE [ rc |-> 0, driver |-> d2 ],
                         d2.info.hw_version # 1)
        AfterCapabilities(caps) ==
            IF caps.rc # 0 THEN caps
            ELSE Capable([ caps.driver EXCEPT !.info.capabilities = dev.capabilities ])
        AfterProperties(props) ==
            IF props.rc # 0 THEN props
            ELSE AfterCapabilities(send_cmd(props.driver, dev, "capabilities",
                                            "ETP_CAPABILITIES_QUERY"))
        AfterVersion(version) ==
            IF version.rc # 0 THEN version
            ELSE AfterProperties(
                     elantechSetProperties([ version.driver EXCEPT !.info.fw_version = fw ]))
    IN  AfterVersion(synaptics_send_cmd(d, dev, "version", "ETP_FW_VERSION_QUERY"))

elantechSetInputParams(d) ==
    LET physical_max_x == IF d.info.x_res = 6 THEN 17000
                          ELSE UDiv((d.info.x_max - d.info.x_min + 1) * 100, d.info.x_res)
        physical_max_y == IF d.info.x_res = 6 THEN 17000
                          ELSE UDiv((d.info.y_max - d.info.y_min + 1) * 100, d.info.y_res)
    IN  [ d EXCEPT !.exported = [ logical_max_x |-> d.info.x_max - d.info.x_min,
                                  logical_max_y |-> d.info.y_max - d.info.y_min,
                                  physical_max_x |-> physical_max_x,
                                  physical_max_y |-> physical_max_y ] ]

\* every register below 0x27 taken for valid
ValidRegNoGap(reg) == ~(reg < 7 \/ reg > 38)

\* the registers the driver may address: 0x07 .. 0x11 and 0x20 .. 0x26
ValidReg(reg) == ~(reg < 7 \/ reg > 38) /\ ~(reg > 17 /\ reg < 32)

\* the commands of a register write, the last of them the one a failing
\* device leaves unanswered
WriteCommands(hw, reg, val, hard) ==
    LET e(command, data) == Cmd("elantech_ps2_command", command, data, FALSE)
        custom == e("ETP_PS2_CUSTOM_COMMAND", 0)
        last == Cmd(IF hw = 1 THEN "ps2_command" ELSE "elantech_ps2_command",
                    "kDP_SetMouseScaling1To1", 0, hard)
    IN  CASE hw = 1 ->
               << Cmd("ps2_sliced_command", "ETP_REGISTER_WRITE", 0, FALSE),
                  Cmd("ps2_sliced_command", "reg", reg, FALSE),
                  Cmd("ps2_sliced_command", "val", val, FALSE), last >>
          [] hw = 2 ->
               << custom, e("ETP_REGISTER_WRITE", 0), custom, e("reg", reg),
                  custom, e("val", val), last >>
          [] hw = 3 ->
               << custom, e("ETP_REGISTER_READWRITE", 0), custom, e("reg", reg),
                  custom, e("val", val), last >>
          [] hw = 4 ->
               << custom, e("ETP_REGISTER_READWRITE", 0), custom, e("reg", reg),
                  custom, e("ETP_REGISTER_READWRITE", 0), custom, e("val", val), last >>
          [] OTHER -> << >>

elantechWriteReg(d, dev, reg, val) ==
    LET Returned(r) == [ rc |-> IF r.rc # 0 THEN -1 ELSE 0, driver |-> r.driver ]
        Sent(x) ==
            AnyFails(d, dev, x,
                     WriteCommands(d.info.hw_version, reg, val, Failing(dev, x)))
    IN  IF ~ValidReg(reg) THEN [ rc |-> -1, driver |-> d ]
        ELSE Returned(Sent(NextExchange(d, "write")))

ReadCommands(hw, reg, hard) ==
    LET e(command, data) == Cmd("elantech_ps2_command", command, data, FALSE)
        custom == e("ETP_PS2_CUSTOM_COMMAND", 0)
        last == Cmd(IF hw = 1 THEN "ps2_command" ELSE "elantech_ps2_command",
                    "kDP_GetMouseInformation", 0, hard)
    IN  CASE hw = 1 ->
               << Cmd("ps2_sliced_command", "ETP_REGISTER_READ", 0, FALSE),
                  Cmd("ps2_sliced_command", "reg", reg, FALSE), last >>
          [] hw = 2 ->
               << custom, e("ETP_REGISTER_READ", 0), custom, e("reg", reg), last >>
          [] hw \in { 3, 4 } ->
               << custom, e("ETP_REGISTER_READWRITE", 0), custom, e("reg", reg), last >>
          [] OTHER -> << >>

\* a register read: the device fails the first dev.read_failures of a step
elantechReadReg(d, dev, reg) ==
    LET Returned(r) ==
            IF r.rc # 0 THEN [ rc |-> -1, val |-> 0, driver |-> r.driver ]
            ELSE [ rc |-> 0,
                   val |-> IF d.info.hw_version # 4 THEN Byte(dev.reg, 0)
                           ELSE Byte(dev.reg, 1),
                   driver |-> r.driver ]
        Sent(x) ==
            AnyFails(d, dev, x, ReadCommands(d.info.hw_version, reg, Failing(dev, x)))
    IN  IF ~ValidReg(reg) THEN [ rc |-> -1, val |-> 0, driver |-> d ]
        ELSE Returned(Sent(NextExchange(d, "read")))

\* the read-back loop of elantechSetAbsoluteMode
RECURSIVE ReadBack(_, _, _)
ReadBack(d, dev, tries) ==
    LET GiveUpOrRetry(r, slept) ==
            IF tries - 1 > 0 THEN ReadBack(slept, dev, tries - 1)
            ELSE [ r EXCEPT !.driver = slept ]
        Read(r) ==
            IF r.rc = 0 THEN r
            ELSE GiveUpOrRetry(r,
                     Traced(r.driver,
                            Entry("IOSleep", << "read_back", 0 >>, "ETP_READ_BACK_DELAY",
                                  0, FALSE)))
    IN  Read(elantechReadReg(d, dev, 16))

\* the registers of each hardware version, written in order up to the
\* first write that fails
RECURSIVE WriteRegsAll(_, _, _)
RECURSIVE WriteRegs(_, _, _)
\* the registers written one after the other whatever the result of a write
WriteRegsAll(d, dev, regs) ==
    LET Both(rc, rest) == [ rc |-> IF rc # 0 THEN -1 ELSE rest.rc, driver |-> rest.driver ]
        Written(w) == Both(w.rc, WriteRegsAll(w.driver, dev, Tail(regs)))
    IN  IF regs = << >> THEN [ rc |-> 0, driver |-> d ]
        ELSE Written(elantechWriteReg(d, dev, Head(regs)[1], Head(regs)[2]))

WriteRegs(d, dev, regs) ==
    LET Written(w) ==
            IF w.rc # 0 THEN [ rc |-> -1, driver |-> w.driver ]
            ELSE WriteRegs(w.driver, dev, Tail(regs))
    IN  IF regs = << >> THEN [ rc |-> 0, driver |-> d ]
        ELSE Written(elantechWriteReg(d, dev, Head(regs)[1], Head(regs)[2]))

\* hardware version 3 taken to skip the read-back as version 4 does
SkipsReadBackFrom3(hw) == hw >= 3

\* goto skip_readback_reg_10
SkipsReadBack(hw) == hw = 4

elantechSetAbsoluteMode(d, dev) ==
    LET hw == d.info.hw_version
        regs == CASE hw = 1 -> [ d.etd EXCEPT !.reg_10 = 22, !.reg_11 = 143 ]
                  [] hw = 2 -> [ d.etd EXCEPT !.reg_10 = 84, !.reg_11 = 136,
                                              !.reg_21 = 96 ]
                  [] hw = 3 -> [ d.etd EXCEPT !.reg_10 =
                                   IF d.info.set_hw_resolution THEN 11 ELSE 1 ]
                  [] hw = 4 -> [ d.etd EXCEPT !.reg_07 = 1 ]
                  [] OTHER -> d.etd
        writes == CASE hw = 1 -> << << 16, regs.reg_10 >>, << 17, regs.reg_11 >> >>
                    [] hw = 2 -> << << 16, regs.reg_10 >>, << 17, regs.reg_11 >>,
                                    << 33, regs.reg_21 >> >>
                    [] hw = 3 -> << << 16, regs.reg_10 >> >>
                    [] hw = 4 -> << << 7, regs.reg_07 >> >>
                    [] OTHER -> << >>
        ReadBackDone(back) ==
            [ rc |-> IF back.rc # 0 THEN back.rc
                     ELSE IF hw = 1 /\ BitAnd(back.val, ETP_R10_ABSOLUTE_MODE) = 0 THEN -1
                     ELSE 0,
              driver |-> back.driver ]
        Written(wrote) ==
            IF SkipsReadBack(hw) \/ wrote.rc # 0 THEN wrote
            ELSE ReadBackDone(ReadBack(wrote.driver, dev, ETP_READ_BACK_TRIES))
    IN  Written(WriteRegs([ d EXCEPT !.etd = regs ], dev, writes))

\* set resolution and dpi: one request of seven commands, its result not looked at
SetResolution(d) ==
    Traced(d, Entry("submitRequestAndBlock", NextExchange(d, "init"),
                    "kDP_SetDefaultsAndDisable .. kDP_Enable", 0, FALSE))

elantechSetupPS2(d0, dev) ==
    LET needs_reg07_fix == IS_ETD0180(d0)
        \* the range of the ETD0180, the input parameters, resolution and rate,
        \* and for the ETD0180 register 0x07 once more
        Restored(d3) ==
            IF IS_ETD0180(d3) THEN elantechWriteReg(d3, dev, 7, d3.etd.reg_07).driver
            ELSE d3
        Ranged(d2) == Restored(SetResolution(elantechSetInputParams(d2)))
        InAbsoluteMode(d1) ==
            [ rc |-> 0,
              driver |-> Ranged(IF IS_ETD0180(d1)
                                THEN [ d1 EXCEPT !.info.x_min = 0, !.info.x_max = 3094,
                                                 !.info.y_min = 0, !.info.y_max = 3096 ]
                                ELSE d1) ]
        Second(second) ==
            IF second.rc # 0 THEN [ rc |-> -1, driver |-> second.driver ]
            ELSE InAbsoluteMode(second.driver)
        Fixed(fix, retry) ==
            IF ~retry THEN InAbsoluteMode(fix.driver)
            ELSE IF fix.rc # 0 THEN [ rc |-> -1, driver |-> fix.driver ]
            ELSE Second(elantechSetAbsoluteMode(fix.driver, dev))
        First(first) ==
            IF needs_reg07_fix
            THEN Fixed(elantechWriteReg(first.driver, dev, 7, 1), first.rc # 0)
            ELSE IF first.rc # 0 THEN [ rc |-> -1, driver |-> first.driver ]
            ELSE InAbsoluteMode(first.driver)
    IN  First(elantechSetAbsoluteMode(
                  [ d0 EXCEPT !.etd.parity = TRUE,
                              !.etd.reg_07 = IF needs_reg07_fix THEN 1 ELSE @ ],
                  dev))

resetMouse(d) ==
    ps2_command(d, NextExchange(d, "reset"), "kDP_Reset", 0, FALSE).driver

setTouchPadEnable(d, enable) ==
    ps2_command(d, NextExchange(d, IF enable THEN "enable" ELSE "disable"),
                IF enable THEN "kDP_Enable" ELSE "kDP_SetDefaultsAndDisable", 0, FALSE).driver

\* IOSleep(wakedelay)
SleepWakeDelay(d) ==
    Traced(d, Entry("IOSleep", NextExchange(d, "sleep"), "wakedelay", 0, FALSE))

\* only the byte count is cleared, the ring keeps its packets
ClearByteCount(d) ==
    Traced([ d EXCEPT !.packetByteCount = 0 ],
           Entry("_ringBuffer.reset", NextExchange(d, "clear"), "reset", 0, FALSE))

\* _packetByteCount = 0; _ringBuffer.reset()
ClearBuffers(d) ==
    Traced([ d EXCEPT !.packetByteCount = 0, !.ringBuffer = ResetRing(d.ringBuffer) ],
           Entry("_ringBuffer.reset", NextExchange(d, "clear"), "reset", 0, FALSE))

\* probe(): the configuration is loaded, the device detected and queried
probe(d, dev, conf) ==
    LET Queried(q) == [ ok |-> q.rc = 0, driver |-> q.driver ]
        Detected(detect) ==
            IF detect.rc # 0 THEN [ ok |-> FALSE, driver |-> detect.driver ]
            ELSE Queried(elantechQueryInfo(resetMouse(detect.driver), dev))
    IN  Detected(elantechDetect(
                     resetMouse([ d EXCEPT !.maxaftertyping = conf.maxaftertyping,
                                           !.config = conf ]),
                     dev))

\* start(): the result of elantechSetupPS2 is not looked at
start(d, dev) == setTouchPadEnable(elantechSetupPS2(d, dev).driver, TRUE)

\* message(kPS2M_setDisableTouchpad), (kPS2M_resetTouchpad), (kPS2M_notifyKeyTime)
setDisableTouchpad(d, enable) == [ d EXCEPT !.ignoreall = ~enable ]

\* the reset that leaves the stale bytes of the ring in place
resetTouchpadKeepingBuffers(d, dev, reqCode) ==
    LET Slept(d1) ==
            setTouchPadEnable(
                elantechSetupPS2(resetMouse([ d1 EXCEPT !.ignoreall = FALSE ]), dev).driver,
                TRUE)
    IN  IF reqCode # 1 THEN d
        ELSE Slept(SleepWakeDelay(setTouchPadEnable(d, FALSE)))

resetTouchpad(d, dev, reqCode) ==
    LET Slept(d1) ==
            setTouchPadEnable(
                elantechSetupPS2(
                    resetMouse(ClearBuffers([ d1 EXCEPT !.ignoreall = FALSE ])),
                    dev).driver,
                TRUE)
    IN  IF reqCode # 1 THEN d
        ELSE Slept(SleepWakeDelay(setTouchPadEnable(d, FALSE)))

notifyKeyTime(d, time) == [ d EXCEPT !.keytime = time ]

\* onButtonTimer: the timer middleButton has set fires; the machine is run
\* on lastbuttons and what it returns is dropped
onButtonTimer(d, now_abs) ==
    LET r == middleButton(d, d.buttons.lastbuttons, now_abs, "fromTimer")
    IN  [ d EXCEPT !.mbutton = [ r.mbutton EXCEPT !.timerArmed = FALSE ] ]

\* setParamPropertiesGated with a dictionary that holds USBMouseStopsTrackpad
setParamPropertiesGated(d, value) ==
    LET loaded == [ d EXCEPT !.config.usb_mouse_stops_trackpad = value ]
    IN  IF loaded.config.attachedHIDPointerDevices # { }
        THEN [ loaded EXCEPT !.ignoreall = value ]
        ELSE loaded

\* the external pointer keeps the trackpad off whatever the set holds
notificationHIDAttachedHandlerSticky(d, newService, notifier) ==
    [ d EXCEPT !.ignoreall = d.config.usb_mouse_stops_trackpad,
               !.config.attachedHIDPointerDevices =
                   IF notifier \in { "usb_hid_publish_notify", "bluetooth_hid_publish_notify" }
                   THEN @ \cup { newService.id } ELSE @ \ { newService.id } ]

\* notificationHIDAttachedHandlerGated: a pointer device is published or
\* terminated; of the Bluetooth devices only the pointing ones are kept
notificationHIDAttachedHandlerGated(d, newService, notifier) ==
    LET set == d.config.attachedHIDPointerDevices
        attached ==
            CASE notifier = "usb_hid_publish_notify" -> set \cup { newService.id }
              [] notifier = "usb_hid_terminate_notify" -> set \ { newService.id }
              [] notifier = "bluetooth_hid_publish_notify" ->
                   IF newService.pointing THEN set \cup { newService.id } ELSE set
              [] notifier = "bluetooth_hid_terminate_notify" -> set \ { newService.id }
              [] OTHER -> set
        published == notifier \in { "usb_hid_publish_notify", "bluetooth_hid_publish_notify" }
        terminated == notifier \in { "usb_hid_terminate_notify",
                                     "bluetooth_hid_terminate_notify" }
    IN  [ d EXCEPT
            !.config.attachedHIDPointerDevices = attached,
            !.ignoreall =
                IF published /\ d.config.usb_mouse_stops_trackpad /\ attached # { }
                THEN TRUE
                ELSE IF terminated /\ d.config.usb_mouse_stops_trackpad /\ attached = { }
                THEN FALSE
                ELSE @ ]

kPS2C_DisableDevice == "kPS2C_DisableDevice"
kPS2C_EnableDevice == "kPS2C_EnableDevice"

setDevicePowerState(d, dev, whatToDo) ==
    CASE whatToDo = kPS2C_DisableDevice -> setTouchPadEnable(d, FALSE)
      [] whatToDo = kPS2C_EnableDevice ->
           setTouchPadEnable(
               elantechSetupPS2(resetMouse(ClearBuffers(SleepWakeDelay(d))), dev).driver,
               TRUE)
      [] OTHER -> d

handleOpen(d) == [ d EXCEPT !.voodooInputInstance = TRUE ]

handleClose(d) == [ d EXCEPT !.voodooInputInstance = FALSE ]

(***************************************************************************)
(* The driver object after construction, and the steps of its life.        *)
(***************************************************************************)
\* a zero-initialised elantech_device_info
ZeroInfo ==
    [ fw_version |-> 0, hw_version |-> 0,
      capabilities |-> << 0, 0, 0 >>, samples |-> << 0, 0, 0 >>,
      x_min |-> 0, x_max |-> 0, y_min |-> 0, y_max |-> 0,
      x_res |-> 0, y_res |-> 0, bus |-> 0,
      width |-> 0, x_traces |-> 0, y_traces |-> 0, debug |-> 0,
      has_trackpoint |-> FALSE, is_buttonpad |-> FALSE, paritycheck |-> FALSE,
      jumpy_cursor |-> FALSE, reports_pressure |-> FALSE, crc_enabled |-> FALSE,
      set_hw_resolution |-> FALSE ]

\* a zero-initialised elantech_data
ZeroEtd ==
    [ reg_07 |-> 0, reg_10 |-> 0, reg_11 |-> 0, reg_21 |-> 0,
      parity |-> FALSE, single_finger_reports |-> 0, mt0 |-> [ x |-> 0, y |-> 0 ] ]

\* the configuration items setParamPropertiesGated loads
DefaultConfig ==
    [ maxaftertyping |-> QuietTime, fakemiddlebutton |-> 1,
      maxmiddleclicktime |-> 1, forceTouchMode |-> "FORCE_TOUCH_BUTTON",
      set_hw_resolution |-> FALSE,
      usb_mouse_stops_trackpad |-> FALSE,
      attachedHIDPointerDevices |-> { } ]

\* the clock when the driver is constructed: the machine has been up for
\* longer than any quiet period
BootTime == QuietTime

ConstructedObject ==
    /\ info = ZeroInfo
    /\ etd = ZeroEtd
    /\ virtualFinger = [ i \in Slots |-> NoFinger ]
    /\ buttons = [ left |-> 0, right |-> 0, lastLeft |-> 0, lastRight |-> 0,
                   lastbuttons |-> 0 ]
    /\ lastFingers = 0
    /\ heldFingers = 0
    /\ headPacketsCount = 0
    /\ keytime = 0
    /\ maxaftertyping = 0
    /\ ignoreall = FALSE
    /\ ringBuffer = EmptyRing
    /\ packetByteCount = 0
    /\ packetLength = 0
    /\ inputEvent = [ contact_count |-> 0, timestamp |-> 0,
                      transducers |->
                        [ k \in 0 .. (VOODOO_INPUT_MAX_TRANSDUCERS - 1) |-> NoTransducer ] ]
    /\ voodooInputInstance = FALSE
    /\ mbutton = [ state |-> "STATE_NOBUTTONS", pendingbuttons |-> 0,
                   buttontime |-> 0, timerArmed |-> FALSE ]
    /\ config = DefaultConfig
    /\ exported = [ logical_max_x |-> 0, logical_max_y |-> 0,
                    physical_max_x |-> 0, physical_max_y |-> 0 ]
    /\ outOfBounds = FALSE
    /\ out = << >>
    /\ trace = << >>
    /\ lastPacketType = "none"
    /\ now = BootTime
    /\ delivered = << >>
    /\ stream = << >>
    /\ results = << >>
    /\ phase = "constructed"
    /\ op = "init"
    /\ total = 0

\* the driver object after construction; no pure function is being evaluated
Constructed == ConstructedObject /\ scratch = << >>

\* the driver object at the start of a step: nothing sent yet
Fresh == [ Driver EXCEPT !.out = << >>, !.trace = << >> ]

History == << delivered, stream, results, total >>

Probe(conf) ==
    /\ phase = "constructed"
    /\ LET r == probe(Fresh, device, conf)
       IN  /\ Becomes(r.driver)
           /\ phase' = IF r.ok THEN "probed" ELSE "failed"
    /\ op' = "probe"
    /\ UNCHANGED << now, History, device, scratch >>

Start ==
    /\ phase = "probed"
    /\ Becomes(start(Fresh, device))
    /\ phase' = "started"
    /\ op' = "start"
    /\ UNCHANGED << now, History, device, scratch >>

HandleOpen ==
    /\ phase = "started"
    /\ ~voodooInputInstance
    /\ Becomes(handleOpen(Fresh))
    /\ op' = "handleOpen"
    /\ UNCHANGED << now, History, phase, device, scratch >>

HandleClose ==
    /\ phase = "started"
    /\ voodooInputInstance
    /\ Becomes(handleClose(Fresh))
    /\ op' = "handleClose"
    /\ UNCHANGED << now, History, phase, device, scratch >>

\* the driver after interruptOccurred on each byte of bytes
RECURSIVE FeedBytes(_, _)
FeedBytes(d, bytes) ==
    IF bytes = << >> THEN d
    ELSE FeedBytes(interruptOccurred(d, Head(bytes)).driver, Tail(bytes))

\* the device sends the packet p: its bytes go through interruptOccurred and
\* the controller then calls packetReady
ReceivePacketWithin(p, limit) ==
    /\ phase = "started"
    /\ total < limit
    /\ Len(p) = packetLength
    /\ Becomes(packetReady(FeedBytes(Fresh, p), now))
    /\ delivered' = Append(delivered, p)
    /\ total' = total + 1
    /\ op' = "packet"
    /\ UNCHANGED << now, stream, results, phase, device, scratch >>

ReceivePacket(p) == ReceivePacketWithin(p, MaxPackets)

\* one byte arrives from the device while the driver object is at one of the positions
InterruptOccurredAt(positions, data) ==
    /\ phase \in positions
    /\ total < MaxBytes
    /\ ringBuffer.count + packetLength <= RingCapacity
    /\ LET r == interruptOccurred(Fresh, data)
       IN  /\ Becomes(r.driver)
           /\ results' = Append(results, r.result)
    /\ stream' = Append(stream, data)
    /\ total' = total + 1
    /\ op' = "interrupt"
    /\ UNCHANGED << now, delivered, phase, device, scratch >>

InterruptOccurred(data) == InterruptOccurredAt({ "started" }, data)

\* the packets packetReady will dispatch: those between tail and head
RECURSIVE Buffered(_, _)
Buffered(ring, n) ==
    IF ring.count < n THEN << >>
    ELSE << TailPacket(ring, n) >> \o Buffered(AdvanceTail(ring, n), n)

\* the controller calls packetReady
PacketReadyAt(positions) ==
    /\ phase \in positions
    /\ ringBuffer.count >= packetLength
    /\ Becomes(packetReady(Fresh, now))
    /\ delivered' = delivered \o Buffered(ringBuffer, packetLength)
    /\ op' = "packetReady"
    /\ UNCHANGED << now, stream, results, total, phase, device, scratch >>

PacketReady == PacketReadyAt({ "started" })

NotifyKeyTime(time) ==
    /\ phase = "started"
    /\ Becomes(notifyKeyTime(Fresh, time))
    /\ op' = "notifyKeyTime"
    /\ UNCHANGED << now, History, phase, device, scratch >>

SetDisableTouchpad(enable) ==
    /\ phase = "started"
    /\ ignoreall = enable
    /\ Becomes(setDisableTouchpad(Fresh, enable))
    /\ op' = "setDisableTouchpad"
    /\ UNCHANGED << now, History, phase, device, scratch >>

\* the machine wakes: setDevicePowerState(kPS2C_EnableDevice)
WakeUp ==
    /\ phase = "started"
    /\ op # "wake"
    /\ Becomes(setDevicePowerState(Fresh, device, kPS2C_EnableDevice))
    /\ stream' = << >>
    /\ results' = << >>
    /\ op' = "wake"
    /\ UNCHANGED << now, delivered, total, phase, device, scratch >>

TickWithin(limit) ==
    /\ now < BootTime + limit
    /\ now' = now + 1
    /\ out' = << >>
    /\ trace' = << >>
    /\ op' = "tick"
    /\ UNCHANGED << info, etd, virtualFinger, buttons, lastFingers, heldFingers,
                    headPacketsCount, keytime, maxaftertyping, ignoreall,
                    ringBuffer, packetByteCount, packetLength, inputEvent,
                    voodooInputInstance, mbutton, config, exported, outOfBounds,
                    lastPacketType, History, phase, device, scratch >>

Tick == TickWithin(MaxTime)

(***************************************************************************)
(* Devices and the packets they send.                                      *)
(***************************************************************************)
\* a touchpad that answers the magic knock and every query
Touchpad(version, capabilities, samples, fw_id) ==
    [ knock |-> << 60, 3, 200 >>, version |-> version,
      capabilities |-> capabilities, samples |-> samples, fw_id |-> fw_id,
      resolution |-> << 0, 85, 0 >>, reg |-> << 22, 1, 0 >>,
      fails |-> {}, once |-> {}, read_failures |-> 0, nacks |-> 0 ]

\* hardware version 4, firmware 0x460f00, with a trackpoint; range 3072 x 2048
DeviceV4 == Touchpad(<< 70, 15, 0 >>, << 128, 16, 8 >>, << 0, 0, 0 >>, << 140, 0, 0 >>)
\* the ETD0180: firmware 0x381f17
DeviceETD0180 == Touchpad(<< 56, 31, 23 >>, << 128, 16, 8 >>, << 0, 0, 0 >>, << 140, 0, 0 >>)
\* hardware version 1: firmware 0x020022 (jumpy cursor) and 0x010000
DeviceV1 == Touchpad(<< 2, 0, 34 >>, << 0, 0, 0 >>, << 0, 0, 0 >>, << 0, 0, 0 >>)
DeviceV1Old == Touchpad(<< 1, 0, 0 >>, << 0, 0, 0 >>, << 0, 0, 0 >>, << 0, 0, 0 >>)
\* hardware version 2: firmware 0x020800 (fixed range, reports pressure),
\* 0x020601 (range from the capabilities) and 0x140000 (fixed dpi)
DeviceV2 == Touchpad(<< 2, 8, 0 >>, << 0, 20, 12 >>, << 0, 0, 0 >>, << 0, 0, 0 >>)
DeviceV2Caps == Touchpad(<< 2, 6, 1 >>, << 0, 20, 12 >>, << 0, 0, 0 >>, << 0, 0, 0 >>)
DeviceV2Small == Touchpad(<< 2, 6, 1 >>, << 0, 1, 0 >>, << 0, 0, 0 >>, << 0, 0, 0 >>)
DeviceV2Dpi == Touchpad(<< 20, 0, 0 >>, << 0, 20, 1 >>, << 0, 100, 60 >>, << 0, 16, 0 >>)
\* hardware version 3: firmware 0x050100 and, with crc, 0x054100; range 1024 x 1024
DeviceV3 == Touchpad(<< 5, 1, 0 >>, << 0, 0, 0 >>, << 0, 0, 0 >>, << 68, 0, 0 >>)
DeviceV3Crc == Touchpad(<< 5, 65, 0 >>, << 0, 0, 0 >>, << 0, 0, 0 >>, << 68, 0, 0 >>)

\* a V4 status packet: the presence mask in byte 1
StatusV4(mask, btn) == << btn, mask, 0, 16, 0, 0 >>

\* a V4 head packet: byte 3 carries id + 1 in its top three bits
HeadV4(id, x, y, btn) ==
    << btn + 32, x \div 256, x % 256, 17 + 32 * (id + 1), y \div 256, y % 256 >>

\* a V4 motion packet for the fingers id and sid (-1: no second finger);
\* the deltas are bytes in two's complement
MotionV4(id, sid, w, dx1, dy1, dx2, dy2) ==
    << 32 * (id + 1) + 16 * w, dx1, dy1, 18 + 32 * (sid + 1), dx2, dy2 >>

\* a V3 packet: head (byte 3 = 0x02) or tail (0x0c), the finger count in
\* the top two bits of byte 0
PacketV3(type, fingers, x, y, btn) ==
    << 64 * fingers + (IF type = PACKET_V3_HEAD THEN 4 ELSE 12) + btn,
       x \div 256, x % 256,
       IF type = PACKET_V3_HEAD THEN 2 ELSE 12,
       y \div 256, y % 256 >>

\* a V2 packet of firmware that reports pressure: one or three fingers
PacketV2(fingers, x, y, btn) ==
    << 64 * fingers + 4 + btn, x \div 256, x % 256, 2, y \div 256, y % 256 >>

\* a V2 two-finger packet of firmware that reports pressure; the
\* coordinates are in units of four
PacketV2Two(ax, ay, bx, by, btn) ==
    << 128 + 4 + btn + 16 * (ax \div 256) + 32 * (ay \div 256), ax % 256, ay % 256,
       2 + 16 * (bx \div 256) + 32 * (by \div 256), bx % 256, by % 256 >>

\* a V2 one- or three-finger packet of firmware that reports no pressure
PacketV2Plain(fingers, x, y, btn) ==
    << 64 * fingers + 60 + btn, x \div 256, x % 256, 56, y \div 256, y % 256 >>

\* a V1 packet with its parity bits, for firmware 0x020000 and later
PacketV1(fingers, x, y, btn) ==
    LET b1 == 4 * (x \div 256) + (y \div 256)
        b2 == x % 256
        b3 == y % 256
    IN  << 64 * fingers + 32 * Parity(b2) + 16 * Parity(b1) + 8 + 4 * Parity(b3) + btn,
           b1, b2, b3 >>

\* a V1 packet of firmware before 0x020000: the finger count is in byte 1
PacketV1Old(f, th, x, y, btn) ==
    LET b1 == 128 * f + 16 * th + 4 * (x \div 256) + (y \div 256)
        b2 == x % 256
        b3 == y % 256
    IN  << 32 * Parity(b1) + 16 * Parity(b2) + 8 + 4 * Parity(b3) + btn, b1, b2, b3 >>

DebounceV2 == << 132, 255, 255, 2, 255, 255 >>
DebounceV3 == << 196, 255, 255, 2, 255, 255 >>
\* a trackpoint packet with one of the four signatures, and one without
TrackpointPacket == << 48, 0, 0, 6, 3, 3 >>
BadTrackpointPacket == << 48, 1, 0, 6, 3, 3 >>

(***************************************************************************)
(* Hardware version 4 at work.                                             *)
(***************************************************************************)
DevicesV4 == { DeviceV4, DeviceETD0180 }

PacketsV4 ==
    { StatusV4(0, 0), StatusV4(1, 0), StatusV4(5, 1),
      HeadV4(0, 100, 200, 0), HeadV4(2, 300, 400, 1), HeadV4(1, 500, 600, 0),
      HeadV4(-1, 700, 800, 0),
      MotionV4(0, 2, 1, 1, 1, 255, 2), MotionV4(5, -1, 0, 1, 1, 0, 0),
      TrackpointPacket, BadTrackpointPacket,
      << 0, 0, 0, 19, 0, 0 >> }

InitV4 == Constructed /\ device \in DevicesV4

NextV4 ==
    \/ Probe(DefaultConfig)
    \/ Start
    \/ HandleOpen
    \/ HandleClose
    \/ \E p \in PacketsV4 : ReceivePacket(p)

SpecV4 == InitV4 /\ [][NextV4]_vars

(***************************************************************************)
(* Hardware version 4 while the user types: keystrokes are notified, the   *)
(* clock advances, and packets arrive in between.                          *)
(***************************************************************************)
PacketsQuiet ==
    { StatusV4(0, 0), StatusV4(1, 0), HeadV4(0, 100, 200, 0),
      MotionV4(0, 2, 1, 1, 1, 255, 2), TrackpointPacket }

NextQuiet ==
    \/ Probe(DefaultConfig)
    \/ Start
    \/ HandleOpen
    \/ HandleClose
    \/ \E p \in PacketsQuiet : ReceivePacket(p)
    \/ \E time \in BootTime .. now : NotifyKeyTime(time)
    \/ Tick

SpecQuiet == InitV4 /\ [][NextQuiet]_vars

(***************************************************************************)
(* What the consumer was sent by the last step, and the packets of the     *)
(* behaviour so far.                                                       *)
(***************************************************************************)
TouchFrames == SelectSeq(out, LAMBDA m : m.type = "touch")

ButtonReports == SelectSeq(out, LAMBDA m : m.type = "trackpoint")

\* the slot ids of the contacts of a frame
Contacts(event) ==
    { event.transducers[k].secondaryId : k \in 0 .. (event.contact_count - 1) }

TouchedSlots == { i \in Slots : virtualFinger[i].touch }

\* timestamp - lastKeyTime < quietPeriod for a packet processed now
InQuietPeriod == now - keytime < maxaftertyping

KindV4(p) == elantechPacketCheckV4(Driver, p)

LastPacket == delivered[Len(delivered)]

\* the finger ids of the presence mask of a Status packet
MaskOf(p) == { i \in Slots : BitAnd(BitAnd(Byte(p, 1), 31), Pow2(i)) # 0 }

\* the finger id of a Head packet
HeadId(p) == Shr(BitAnd(Byte(p, 3), 224), 5) - 1

\* the first finger id of a Motion packet
MotionId(p) == Shr(BitAnd(Byte(p, 0), 224), 5) - 1

\* the position in delivered of the most recent Status packet, 0 if none
LastStatusIndex ==
    LET at == { i \in 1 .. Len(delivered) : KindV4(delivered[i]) = PACKET_V4_STATUS }
    IN  IF at = { } THEN 0 ELSE CHOOSE i \in at : \A j \in at : j <= i

\* the finger ids of the Head packets processed since the most recent Status
HeadIdsSinceStatus ==
    { HeadId(delivered[i]) : i \in { j \in (LastStatusIndex + 1) .. Len(delivered) :
                                         KindV4(delivered[j]) = PACKET_V4_HEAD } }

(***************************************************************************)
(* C2: on V4 hardware, after a Status packet reporting N > 0 fingers no    *)
(* frame is emitted until a Head packet for each reported finger id has    *)
(* been processed, the Head that completes them emits one frame with all N *)
(* contacts, and a Status reporting no fingers emits a frame with zero     *)
(* contacts at once.                                                       *)
(***************************************************************************)
C2_StatusThenHeads ==
    (op = "packet" /\ LastStatusIndex > 0) =>
        LET mask == MaskOf(delivered[LastStatusIndex])
            emitting == voodooInputInstance /\ ~InQuietPeriod
        IN  /\ (mask # { } /\ HeadIdsSinceStatus # mask) => TouchFrames = << >>
            /\ ( /\ mask # { }
                 /\ HeadIdsSinceStatus = mask
                 /\ KindV4(LastPacket) = PACKET_V4_HEAD
                 /\ emitting )
               => /\ Len(TouchFrames) = 1
                  /\ Contacts(TouchFrames[1].event) = mask
            /\ (mask = { } /\ LastStatusIndex = Len(delivered) /\ emitting)
               => /\ Len(TouchFrames) = 1
                  /\ TouchFrames[1].event.contact_count = 0

(***************************************************************************)
(* C3: on V4 hardware the slots that appear as contacts in an emitted      *)
(* frame are exactly the finger ids of the presence mask of the most       *)
(* recent Status packet.                                                   *)
(***************************************************************************)
C3_ContactsAreLastMask ==
    (op = "packet" /\ LastStatusIndex > 0) =>
        \A n \in 1 .. Len(TouchFrames) :
            Contacts(TouchFrames[n].event) = MaskOf(delivered[LastStatusIndex])

(***************************************************************************)
(* C5: a frame built by sendTouchData has one contact for each slot with   *)
(* touch set and none for any other slot, in increasing slot order;        *)
(* contact_count is the number of touched slots and every entry at an      *)
(* index from contact_count on is invalid and inactive.                    *)
(***************************************************************************)
C5_FrameContacts ==
    \A n \in 1 .. Len(TouchFrames) :
        LET ev == TouchFrames[n].event
            count == ev.contact_count
        IN  /\ count = Cardinality(TouchedSlots)
            /\ Contacts(ev) = TouchedSlots
            /\ \A k \in 0 .. (count - 2) :
                   ev.transducers[k].secondaryId < ev.transducers[k + 1].secondaryId
            /\ \A k \in 0 .. (count - 1) :
                   ev.transducers[k].isValid /\ ev.transducers[k].isTransducerActive
            /\ \A k \in count .. (VOODOO_INPUT_MAX_TRANSDUCERS - 1) :
                   ~ev.transducers[k].isValid /\ ~ev.transducers[k].isTransducerActive

\* a frame with two contacts, the second slot not next to the first
C5_Witness ==
    /\ op = "packet"
    /\ Len(TouchFrames) = 1
    /\ TouchFrames[1].event.contact_count = 2
    /\ TouchedSlots = { 0, 2 }

(***************************************************************************)
(* C8: a packet processed while timestamp - lastKeyTime < quietPeriod      *)
(* sends the consumer nothing, neither a touch frame nor a button report;  *)
(* the packet still updates the virtual fingers; and a packet that reaches *)
(* the emitter once the quiet period has elapsed produces one frame whose  *)
(* contacts are the fingers as they are now.                               *)
(***************************************************************************)
C8_QuietPeriod ==
    (op = "packet" /\ delivered # << >>) =>
        LET kind == KindV4(LastPacket)
            id == HeadId(LastPacket)
            reachesEmitter ==
                \/ kind = PACKET_V4_STATUS /\ MaskOf(LastPacket) = { }
                \/ kind = PACKET_V4_MOTION /\ MotionId(LastPacket) >= 0
        IN  /\ InQuietPeriod => out = << >>
            /\ (kind = PACKET_V4_HEAD /\ id \in Slots) =>
                   /\ virtualFinger[id].touch
                   /\ virtualFinger[id].now.x =
                          BitOr(Shl(BitAnd(Byte(LastPacket, 1), 15), 8),
                                Byte(LastPacket, 2))
            /\ (kind = PACKET_V4_STATUS /\ MaskOf(LastPacket) # { }) =>
                   TouchedSlots = MaskOf(LastPacket)
            /\ (reachesEmitter /\ ~InQuietPeriod /\ voodooInputInstance) =>
                   /\ Len(TouchFrames) = 1
                   /\ Contacts(TouchFrames[1].event) = TouchedSlots
                   /\ \A k \in 0 .. (TouchFrames[1].event.contact_count - 1) :
                          LET tr == TouchFrames[1].event.transducers[k]
                          IN  /\ tr.currentCoordinates.x =
                                     virtualFinger[tr.secondaryId].now.x
                              /\ tr.currentCoordinates.y =
                                     virtualFinger[tr.secondaryId].now.y

\* a keystroke was notified, the quiet period has just elapsed, and the
\* packet processed now produced a frame with a finger on it
C8_Witness ==
    /\ op = "packet"
    /\ keytime >= BootTime
    /\ now = keytime + maxaftertyping
    /\ KindV4(LastPacket) = PACKET_V4_MOTION
    /\ Len(TouchFrames) = 1
    /\ TouchFrames[1].event.contact_count > 0

(***************************************************************************)
(* C9: a valid trackpoint packet processed at time t starts a quiet        *)
(* period, so that a packet processed before t + quietPeriod emits no      *)
(* frame; in particular it never ends a quiet period a keystroke started.  *)
(***************************************************************************)
C9_TrackpointStartsQuietPeriod ==
    [][ ( /\ op' = "packet"
          /\ lastPacketType' = PACKET_TRACKPOINT
          /\ TrackpointSignature(delivered'[Len(delivered')]) )
        => InQuietPeriod' ]_vars

(***************************************************************************)
(* Hardware versions 1, 2 and 3 at work.                                   *)
(***************************************************************************)
DevicesV123 == { DeviceV1, DeviceV1Old, DeviceV2, DeviceV2Caps, DeviceV3 }

\* a V2 two-finger packet of firmware that reports no pressure
PacketV2PlainTwo(ax, ay, bx, by, btn) ==
    << 128 + 12 + btn + 16 * (ax \div 256) + 32 * (ay \div 256), ax % 256, ay % 256,
       8 + 16 * (bx \div 256) + 32 * (by \div 256), bx % 256, by % 256 >>

\* each set ends with a packet of another format or with wrong parity
PacketsV1New ==
    { PacketV1(0, 0, 0, 0), PacketV1(1, 100, 50, 0), PacketV1(2, 300, 200, 1),
      PacketV1(3, 200, 100, 0), << 8, 1, 0, 0 >> }

PacketsV1Old ==
    { PacketV1Old(0, 0, 0, 0, 0), PacketV1Old(1, 0, 100, 50, 0),
      PacketV1Old(1, 1, 300, 200, 0), PacketV1Old(1, 2, 300, 200, 1),
      PacketV1Old(1, 3, 200, 100, 0), << 8, 1, 0, 0 >> }

PacketsV2 ==
    { PacketV2(0, 0, 0, 0), PacketV2(1, 500, 400, 0), PacketV2(1, 2000, 1500, 1),
      PacketV2(3, 600, 500, 0), PacketV2Two(60, 50, 130, 40, 0),
      DebounceV2, PacketV3(PACKET_V3_TAIL, 2, 700, 1100, 0) }

PacketsV2Plain ==
    { PacketV2Plain(0, 0, 0, 0), PacketV2Plain(1, 500, 400, 0),
      PacketV2Plain(3, 600, 500, 1), PacketV2PlainTwo(60, 50, 130, 40, 0),
      DebounceV2, PacketV2(1, 500, 400, 0) }

PacketsV3 ==
    { PacketV3(PACKET_V3_HEAD, 0, 0, 0, 0),
      PacketV3(PACKET_V3_HEAD, 1, 500, 400, 0),
      PacketV3(PACKET_V3_HEAD, 1, 2000, 1500, 1),
      PacketV3(PACKET_V3_HEAD, 2, 300, 200, 0),
      PacketV3(PACKET_V3_TAIL, 2, 700, 1100, 0),
      PacketV3(PACKET_V3_HEAD, 3, 600, 500, 0),
      DebounceV3, TrackpointPacket, << 0, 0, 0, 0, 0, 0 >> }

\* the packets a touchpad sends: those of its hardware version
PacketsOf(dev) ==
    CASE dev = DeviceV1 -> PacketsV1New
      [] dev = DeviceV1Old -> PacketsV1Old
      [] dev = DeviceV2 -> PacketsV2
      [] dev = DeviceV2Caps -> PacketsV2Plain
      [] OTHER -> PacketsV3

InitV123 == Constructed /\ device \in DevicesV123

NextV123 ==
    \/ Probe(DefaultConfig)
    \/ Start
    \/ HandleOpen
    \/ HandleClose
    \/ \E p \in PacketsOf(device) : ReceivePacket(p)
    \/ WakeUp

SpecV123 == InitV123 /\ [][NextV123]_vars

\* the finger-count field of a V1, V2 or V3 packet
FingerCount(p) ==
    IF info.hw_version = 1 /\ info.fw_version < 131072
    THEN Shr(BitAnd(Byte(p, 1), 128), 7) + Shr(BitAnd(Byte(p, 1), 48), 4)
    ELSE Shr(BitAnd(Byte(p, 0), 192), 6)

(***************************************************************************)
(* C4: on V1, V2 and V3 hardware a frame emitted for a valid packet whose  *)
(* finger-count field is f (0..3) has exactly the slots 0 .. f-1 as        *)
(* contacts: they are touched and every other slot of 0 .. 2 is not.       *)
(***************************************************************************)
C4_SlotsAreFingerCount ==
    ( /\ op = "packet"
      /\ info.hw_version \in { 1, 2, 3 }
      /\ lastPacketType \in { "PACKET_V1", "PACKET_V2", PACKET_V3_HEAD, PACKET_V3_TAIL }
      /\ FingerCount(LastPacket) \in 0 .. 3 )
    => \A n \in 1 .. Len(TouchFrames) :
           /\ \A i \in 0 .. 2 : virtualFinger[i].touch <=> i < FingerCount(LastPacket)
           /\ Contacts(TouchFrames[n].event) = 0 .. (FingerCount(LastPacket) - 1)

\* a one-finger frame right after a packet that reported more fingers
C4_Witness ==
    /\ op = "packet"
    /\ Len(delivered) >= 2
    /\ lastFingers = 1
    /\ FingerCount(delivered[Len(delivered) - 1]) \in { 2, 3 }
    /\ Len(TouchFrames) = 1
    /\ Contacts(TouchFrames[1].event) = { 0 }

(***************************************************************************)
(* C6: once negotiated, no step but an explicit reset lowers x_max or      *)
(* y_max or raises x_min or y_min; a bound the rescaler has widened stays. *)
(***************************************************************************)
C6_BoundsOnlyWiden ==
    [][ (phase = "started" /\ op' # "wake")
        => /\ ULe(info.x_max, info'.x_max)
           /\ ULe(info.y_max, info'.y_max)
           /\ ULe(info'.x_min, info.x_min)
           /\ ULe(info'.y_min, info.y_min) ]_vars

\* the rescaler has widened both maxima of the V3 touchpad, and packets
\* have been processed since
C6_Witness ==
    /\ info.hw_version = 3
    /\ op = "packet"
    /\ info.x_max = 2000
    /\ info.y_max = 1500
    /\ LastPacket # PacketV3(PACKET_V3_HEAD, 1, 2000, 1500, 1)

(***************************************************************************)
(* Negotiation with every kind of touchpad: each hardware version, varied  *)
(* capability, sample and firmware-id bytes, and exchanges that fail.      *)
(***************************************************************************)
VersionsNeg ==
    { << 1, 0, 0 >>, << 2, 0, 34 >>, << 2, 8, 0 >>, << 2, 6, 1 >>, << 20, 0, 0 >>,
      << 5, 1, 0 >>, << 5, 65, 0 >>, << 70, 15, 0 >>, << 56, 31, 23 >>,
      << 0, 0, 0 >>, << 2, 6, 100 >> }

CapabilitiesNeg ==
    { << 0, 0, 0 >>, << 0, 1, 0 >>, << 0, 20, 12 >>, << 128, 16, 8 >>,
      << 255, 255, 255 >> }

FwIdNeg ==
    { << 0, 0, 0 >>, << 68, 0, 0 >>, << 140, 0, 0 >>, << 0, 16, 0 >>,
      << 255, 255, 255 >> }

SamplesNeg == { << 0, 0, 0 >>, << 0, 100, 60 >> }

FailsNeg ==
    { { }, { "knock" }, { "version" }, { "capabilities" }, { "samples" },
      { "fw_id" }, { "resolution" }, { "write" } }

DevicesNeg ==
    { [ Touchpad(v, c, s, f) EXCEPT !.fails = x, !.read_failures = r ] :
        v \in VersionsNeg, c \in CapabilitiesNeg, s \in SamplesNeg, f \in FwIdNeg,
        x \in FailsNeg, r \in { 0, ETP_READ_BACK_TRIES } }

PacketsNeg ==
    { PacketV3(PACKET_V3_HEAD, 1, 2000, 1500, 1),
      PacketV3(PACKET_V3_HEAD, 1, 500, 400, 0),
      PacketV1(1, 100, 50, 0) }

InitNeg == Constructed /\ device \in DevicesNeg

NextNeg ==
    \/ Probe(DefaultConfig)
    \/ Start
    \/ \E p \in PacketsNeg : ReceivePacket(p)
    \/ WakeUp

SpecNeg == InitNeg /\ [][NextNeg]_vars

(***************************************************************************)
(* C7: after a successful negotiation, whatever the hardware version and   *)
(* the capability and firmware-id bytes, and after any rescaling,          *)
(* x_min <= x_max and y_min <= y_max (the bounds are unsigned).            *)
(***************************************************************************)
C7_MinBelowMax ==
    phase \in { "probed", "started" }
    => ULe(info.x_min, info.x_max) /\ ULe(info.y_min, info.y_max)

\* a negotiated V3 touchpad whose bounds the rescaler has widened
C7_Witness ==
    /\ phase = "started"
    /\ op = "packet"
    /\ info.hw_version = 3
    /\ LastPacket = PacketV3(PACKET_V3_HEAD, 1, 2000, 1500, 1)
    /\ info.x_max = 2000

(***************************************************************************)
(* Reassembly, byte by byte: the controller hands each byte to             *)
(* interruptOccurred and calls packetReady some time after a packet is     *)
(* complete, before the ring is full; the driver is not reset meanwhile.   *)
(***************************************************************************)
DevicesReasm == { DeviceV1, DeviceV4 }

BytesReasm == { 0, 17 }

InitReasm == Constructed /\ device \in DevicesReasm

NextReasm ==
    \/ Probe(DefaultConfig)
    \/ Start
    \/ \E data \in BytesReasm : InterruptOccurred(data)
    \/ PacketReady

SpecReasm == InitReasm /\ [][NextReasm]_vars

\* the packets completed since the last reset, dispatched or still in the ring
ReadyPackets ==
    LET all == delivered \o Buffered(ringBuffer, packetLength)
        ready == Len(stream) \div packetLength
    IN  SubSeq(all, Len(all) - ready + 1, Len(all))

(***************************************************************************)
(* C1: of the L bytes given one at a time to interruptOccurred since the   *)
(* last reset, with packet length P, every P-th call and no other returns  *)
(* kPS2IR_packetReady, floor(L / P) calls in all, and the k-th packet made *)
(* ready is the bytes (k-1)*P+1 .. k*P of the input in their order.        *)
(***************************************************************************)
C1_Reassembly ==
    phase = "started" =>
        /\ Len(results) = Len(stream)
        /\ \A i \in 1 .. Len(stream) :
               results[i] = IF i % packetLength = 0 THEN kPS2IR_packetReady
                            ELSE kPS2IR_packetBuffering
        /\ Len(ReadyPackets) = Len(stream) \div packetLength
        /\ \A k \in 1 .. Len(ReadyPackets) :
               ReadyPackets[k] =
                   [ j \in 1 .. packetLength |-> stream[(k - 1) * packetLength + j] ]

\* two packets made ready, one of them dispatched, and a byte of the third
C1_Witness ==
    /\ phase = "started"
    /\ op = "interrupt"
    /\ Len(stream) = 2 * packetLength + 1
    /\ Len(ReadyPackets) = 2
    /\ ReadyPackets[1] # ReadyPackets[2]
    /\ ringBuffer.count = packetLength
    /\ packetByteCount = 1

(***************************************************************************)
(* elantech_is_signature_valid on its own: the three bytes of a firmware   *)
(* version are drawn, and the function is applied to them.                 *)
(***************************************************************************)
SigByte0 == { 0, 1, 5, 6, 15, 16, 22, 70, 245, 255 }

SigByte1 == 0 .. 255

SigByte2 ==
    { 0, 9, 10, 11, 19, 20, 21, 39, 40, 41, 59, 60, 61, 79, 80, 81,
      99, 100, 101, 199, 200, 201, 255 }

InitSig ==
    /\ ConstructedObject
    /\ device = DeviceV4
    /\ scratch \in { [ param |-> << b0, b1, b2 >>, checked |-> FALSE, valid |-> FALSE ] :
                       b0 \in SigByte0, b1 \in SigByte1, b2 \in SigByte2 }

CheckSignature ==
    /\ ~scratch.checked
    /\ scratch' = [ scratch EXCEPT !.checked = TRUE,
                                   !.valid = elantech_is_signature_valid(scratch.param) ]
    /\ op' = "elantech_is_signature_valid"
    /\ UNCHANGED << info, etd, virtualFinger, buttons, lastFingers, heldFingers,
                    headPacketsCount, keytime, maxaftertyping, ignoreall,
                    ringBuffer, packetByteCount, packetLength, inputEvent,
                    voodooInputInstance, mbutton, config, exported, outOfBounds,
                    out, trace, lastPacketType, now, History, phase, device >>

NextSig == CheckSignature

SpecSig == InitSig /\ [][NextSig]_vars

(***************************************************************************)
(* C10: elantech_is_signature_valid(b0, b1, b2) is false when b0 = 0;      *)
(* otherwise true when b1 = 0; otherwise true when (b0 & 0x0f) >= 6 and    *)
(* (b1 & 0xaf) = 0x0f and b2 < 40; otherwise false exactly when b2 is one  *)
(* of 200, 100, 80, 60, 40, 20, 10.  A version with b1 # 0 and b2 = 100 is *)
(* rejected.                                                               *)
(***************************************************************************)
C10_SignatureTable ==
    scratch # << >> /\ scratch.checked =>
        LET b0 == scratch.param[1]
            b1 == scratch.param[2]
            b2 == scratch.param[3]
            expected ==
                CASE b0 = 0 -> FALSE
                  [] b0 # 0 /\ b1 = 0 -> TRUE
                  [] b0 # 0 /\ b1 # 0 /\ b0 % 16 >= 6 /\ BitAnd(b1, 175) = 15 /\ b2 < 40
                       -> TRUE
                  [] OTHER -> b2 \notin { 200, 100, 80, 60, 40, 20, 10 }
        IN  /\ scratch.valid = expected
            /\ (b1 # 0 /\ b2 = 100) => ~scratch.valid

\* a revision above 20 passes though its third byte is a PS/2 rate
C10_Witness ==
    /\ scratch # << >>
    /\ scratch.checked
    /\ scratch.param = << 70, 15, 20 >>
    /\ scratch.valid

(***************************************************************************)
(* Detection: probe() on touchpads and on other devices that answer the    *)
(* magic knock in their own way or not at all.                             *)
(***************************************************************************)
KnocksDetect ==
    { << 60, 3, 200 >>, << 60, 3, 0 >>, << 60, 3, 1 >>, << 60, 3, 100 >>,
      << 60, 4, 200 >>, << 61, 3, 0 >>, << 0, 0, 0 >>, << 200, 3, 60 >> }

VersionsDetect ==
    { << 70, 15, 0 >>, << 2, 0, 34 >>, << 5, 1, 0 >>, << 0, 3, 200 >>, << 2, 8, 100 >> }

FailsDetect ==
    { { }, { "knock_defaults" }, { "knock_scaling" }, { "knock" }, { "version" } }

DevicesDetect ==
    { [ Touchpad(v, << 128, 16, 8 >>, << 0, 0, 0 >>, << 140, 0, 0 >>)
          EXCEPT !.knock = k, !.fails = x ] :
        k \in KnocksDetect, v \in VersionsDetect, x \in FailsDetect }

InitDetect == Constructed /\ device \in DevicesDetect

NextDetect ==
    \/ Probe(DefaultConfig)
    \/ Start
    \/ WakeUp

SpecDetect == InitDetect /\ [][NextDetect]_vars

\* the entries of the trace that belong to an exchange of the name
EntriesOf(tr, name) == { i \in 1 .. Len(tr) : tr[i].exchange[1] = name }

KnockFails == { "knock_defaults", "knock_scaling", "knock" }

\* the device answers every knock command, with one of the two signatures
GoodKnock ==
    /\ device.fails \cap KnockFails = { }
    /\ device.knock \in { << 60, 3, 200 >>, << 60, 3, 0 >> }

\* C11: probe() accepts the device only if every knock command is answered
\* and the answer is (0x3c, 0x03, 0xc8) or (0x3c, 0x03, 0x00); otherwise the
\* firmware-version query is never issued, probe declines the device, the
\* knock is sent once only and nothing is done with the device afterwards.
C11_KnockGuardsDetection ==
    /\ phase \in { "probed", "started" } => GoodKnock
    /\ phase = "failed" => op = "probe"
    /\ (op = "probe" /\ ~GoodKnock) =>
          /\ phase = "failed"
          /\ EntriesOf(trace, "version") = { }
          /\ Cardinality(ExchangesOf(trace, "knock")) = 1
          /\ Cardinality({ i \in EntriesOf(trace, "knock") :
                             trace[i].command = "kDP_SetDefaults" }) = 1

\* a device that answers the knock with another third byte has been declined
C11_Witness ==
    /\ op = "probe"
    /\ phase = "failed"
    /\ device.knock = << 60, 3, 1 >>
    /\ device.fails = { }
    /\ Len(trace) = 7

(***************************************************************************)
(* elantechSetProperties on its own: the three bytes of a firmware version *)
(* are drawn, stored as info.fw_version, and the function is applied.      *)
(***************************************************************************)
PropsByte0 == 0 .. 255

PropsByte1 == { 0, 5, 6, 7, 8, 64, 255 }

PropsByte2 == { 0, 34, 47, 48, 49, 255 }

InitProps ==
    /\ ConstructedObject
    /\ device = DeviceV4
    /\ scratch \in { [ fw |-> b0 * 65536 + b1 * 256 + b2, applied |-> FALSE, rc |-> 0 ] :
                       b0 \in PropsByte0, b1 \in PropsByte1, b2 \in PropsByte2 }

SetProperties ==
    /\ ~scratch.applied
    /\ LET r == elantechSetProperties([ Fresh EXCEPT !.info.fw_version = scratch.fw ])
       IN  /\ Becomes(r.driver)
           /\ scratch' = [ scratch EXCEPT !.applied = TRUE, !.rc = r.rc ]
    /\ op' = "elantechSetProperties"
    /\ UNCHANGED << now, History, phase, device >>

NextProps == SetProperties

SpecProps == InitProps /\ [][NextProps]_vars

(***************************************************************************)
(* C12: for a firmware version fw, elantechSetProperties sets hardware     *)
(* version 1 if fw < 0x020030 or fw = 0x020600; otherwise, with body =     *)
(* (fw >> 16) & 0xf, version 2 for body 2 or 4, version 3 for body 5,      *)
(* version 4 for body 6 to 15, and it fails for body 0, 1 and 3.  The      *)
(* packet length is 4 exactly for version 1 and 6 for every other.         *)
(***************************************************************************)
C12_HardwareVersionTable ==
    scratch # << >> /\ scratch.applied =>
        LET fw == scratch.fw
            body == (fw \div 65536) % 16
            early == fw < 2 * 65536 + 48 \/ fw = 2 * 65536 + 6 * 256
        IN  /\ early => scratch.rc = 0 /\ info.hw_version = 1
            /\ ~early /\ body \in { 2, 4 } => scratch.rc = 0 /\ info.hw_version = 2
            /\ ~early /\ body = 5 => scratch.rc = 0 /\ info.hw_version = 3
            /\ ~early /\ body \in 6 .. 15 => scratch.rc = 0 /\ info.hw_version = 4
            /\ ~early /\ body \in { 0, 1, 3 } => scratch.rc = -1
            /\ scratch.rc = 0 => (packetLength = 4 <=> info.hw_version = 1)
            /\ scratch.rc = 0 => packetLength \in { 4, 6 }

\* firmware 0x020600 has body 2 and is a version 1 pad with packets of 4 bytes
C12_Witness ==
    /\ scratch # << >>
    /\ scratch.applied
    /\ scratch.fw = 2 * 65536 + 6 * 256
    /\ info.hw_version = 1
    /\ packetLength = 4

(***************************************************************************)
(* The register operations on their own: elantechReadReg and               *)
(* elantechWriteReg applied to every address of a range, on a probed or    *)
(* started driver of each hardware version.                                *)
(***************************************************************************)
Registers == 0 .. 45

RegisterValues == { 1, 84 }

DevicesRegs ==
    { [ dev EXCEPT !.fails = x ] :
        dev \in { DeviceV1, DeviceV2, DeviceV3, DeviceV4 },
        x \in { { }, { "read" }, { "write" } } }

InitRegs == Constructed /\ device \in DevicesRegs

ReadRegister(reg) ==
    /\ phase \in { "probed", "started" }
    /\ LET r == elantechReadReg(Fresh, device, reg)
       IN  /\ Becomes(r.driver)
           /\ scratch' = [ reg |-> reg, rc |-> r.rc ]
    /\ op' = "elantechReadReg"
    /\ UNCHANGED << now, History, phase, device >>

WriteRegister(reg, val) ==
    /\ phase \in { "probed", "started" }
    /\ LET r == elantechWriteReg(Fresh, device, reg, val)
       IN  /\ Becomes(r.driver)
           /\ scratch' = [ reg |-> reg, rc |-> r.rc ]
    /\ op' = "elantechWriteReg"
    /\ UNCHANGED << now, History, phase, device >>

NextRegs ==
    \/ Probe(DefaultConfig)
    \/ Start
    \/ \E reg \in Registers : ReadRegister(reg)
    \/ \E reg \in Registers, val \in RegisterValues : WriteRegister(reg, val)

SpecRegs == InitRegs /\ [][NextRegs]_vars

(***************************************************************************)
(* C13: elantechReadReg and elantechWriteReg take a register address only  *)
(* in 0x07 .. 0x11 or 0x20 .. 0x26.  For any other address they return     *)
(* failure, submit no PS/2 command and leave the driver's state as it was; *)
(* for an address in the ranges they do submit commands.                   *)
(***************************************************************************)
C13_RegisterRange ==
    [][ op' \in { "elantechReadReg", "elantechWriteReg" } =>
          IF scratch'.reg \in (7 .. 17) \cup (32 .. 38)
          THEN /\ trace' # << >>
               /\ scratch'.rc = 0 <=>
                    (IF op' = "elantechReadReg" THEN "read" ELSE "write") \notin device.fails
          ELSE /\ scratch'.rc = -1
               /\ trace' = << >>
               /\ Fresh' = Fresh ]_vars

\* register 0x12 lies between the two ranges: the write is refused
C13_Witness ==
    /\ op = "elantechWriteReg"
    /\ scratch.reg = 18
    /\ scratch.rc = -1
    /\ trace = << >>
    /\ phase = "started"

(***************************************************************************)
(* Setup on devices that leave commands unanswered: the first attempts of  *)
(* every retried command, the first reads, single exchanges, or every read *)
(* or write.  Besides probe, start and wake-up, elantechSetAbsoluteMode    *)
(* and elantech_ps2_command are applied on their own.                      *)
(***************************************************************************)
DevicesSetup ==
    { [ dev EXCEPT !.fails = x, !.once = o, !.read_failures = k, !.nacks = n,
                   !.reg = r ] :
        dev \in { DeviceV1, DeviceV2, DeviceV3, DeviceV4, DeviceETD0180 },
        x \in { { }, { "read" }, { "write" } },
        o \in { { }, { << "write", 1 >> }, { << "write", 2 >> }, { << "read", 2 >> } },
        k \in 0 .. ETP_READ_BACK_TRIES,
        n \in 0 .. ETP_PS2_COMMAND_TRIES,
        r \in { << 22, 1, 0 >>, << 0, 1, 0 >> } }

InitSetup == Constructed /\ device \in DevicesSetup

SetAbsoluteMode ==
    /\ phase \in { "probed", "started" }
    /\ LET r == elantechSetAbsoluteMode(Fresh, device)
       IN  /\ Becomes(r.driver)
           /\ scratch' = [ rc |-> r.rc ]
    /\ op' = "elantechSetAbsoluteMode"
    /\ UNCHANGED << now, History, phase, device >>

RetriedCommand ==
    /\ phase \in { "probed", "started" }
    /\ LET r == elantech_ps2_command(Fresh, device, << "command", 1 >>,
                                     "kDP_SetMouseScaling1To1", 0, FALSE)
       IN  /\ Becomes(r.driver)
           /\ scratch' = [ rc |-> r.rc ]
    /\ op' = "elantech_ps2_command"
    /\ UNCHANGED << now, History, phase, device >>

NextSetup ==
    \/ Probe(DefaultConfig)
    \/ Start
    \/ WakeUp
    \/ SetAbsoluteMode
    \/ RetriedCommand

SpecSetup == InitSetup /\ [][NextSetup]_vars

\* the requests of an exchange, the calls of IOSleep left out
RequestsOf(tr, x) == { i \in 1 .. Len(tr) : tr[i].exchange = x /\ tr[i].fn # "IOSleep" }

\* the exchange ended with a request the device left unanswered
ExchangeFailed(tr, x) ==
    LET last == CHOOSE i \in RequestsOf(tr, x) : \A j \in RequestsOf(tr, x) : j <= i
    IN  tr[last].failed

\* the registers elantechSetAbsoluteMode writes for the hardware version
RegistersWritten(hw) ==
    CASE hw = 1 -> 2
      [] hw = 2 -> 3
      [] OTHER -> 1

\* every register write of the version was made and answered
AllWritesSucceeded ==
    /\ Cardinality(ExchangesOf(trace, "write")) = RegistersWritten(info.hw_version)
    /\ \A x \in ExchangesOf(trace, "write") : ~ExchangeFailed(trace, x)

\* the registers addressed by the reads of the trace
RegistersRead ==
    { trace[i].data : i \in { j \in EntriesOf(trace, "read") : trace[j].command = "reg" } }

(***************************************************************************)
(* C14 as stated: elantechSetAbsoluteMode reads register 0x10 back for     *)
(* hardware versions 1 and 2 only; for versions 3 and 4 it issues no       *)
(* register read and its result is that of the register write.             *)
(***************************************************************************)
C14_AsStated ==
    op = "elantechSetAbsoluteMode" =>
        /\ info.hw_version \in { 1, 2 } =>
              (EntriesOf(trace, "read") # { } <=> AllWritesSucceeded)
        /\ info.hw_version \in { 3, 4 } =>
              /\ EntriesOf(trace, "read") = { }
              /\ scratch.rc = 0 <=> AllWritesSucceeded

(***************************************************************************)
(* C14: elantechSetAbsoluteMode reads register 0x10 back for hardware      *)
(* versions 1, 2 and 3, and only after all register writes succeeded; it   *)
(* reads no other register.  For hardware version 4 it issues no register  *)
(* read at all and its result is that of the register write alone.         *)
(***************************************************************************)
C14_ReadBackButForV4 ==
    op = "elantechSetAbsoluteMode" =>
        /\ RegistersRead \subseteq { 16 }
        /\ info.hw_version \in { 1, 2, 3 } =>
              /\ EntriesOf(trace, "read") # { } <=> AllWritesSucceeded
              /\ scratch.rc = 0 => AllWritesSucceeded
        /\ info.hw_version = 4 =>
              /\ EntriesOf(trace, "read") = { }
              /\ scratch.rc = 0 <=> AllWritesSucceeded

\* a version 3 pad whose write was answered and whose first read was not
C14_Witness ==
    /\ op = "elantechSetAbsoluteMode"
    /\ info.hw_version = 3
    /\ AllWritesSucceeded
    /\ Cardinality(ExchangesOf(trace, "read")) = 2
    /\ scratch.rc = 0

\* the attempts of the command elantech_ps2_command was applied to
Attempts == { i \in 1 .. Len(trace) : trace[i].fn = "ps2_command" }

\* from entry i on, n attempts of one exchange in a row were left unanswered
RECURSIVE FailedInARow(_, _, _)
FailedInARow(tr, i, n) ==
    \/ n = 0
    \/ /\ i <= Len(tr)
       /\ tr[i].fn = "ps2_command"
       /\ tr[i].failed
       /\ \/ n = 1
          \/ /\ i + 2 <= Len(tr)
             /\ tr[i + 1].command = "ETP_PS2_COMMAND_DELAY"
             /\ tr[i + 2].exchange = tr[i].exchange
             /\ FailedInARow(tr, i + 2, n - 1)

(***************************************************************************)
(* C15: elantech_ps2_command makes at least one and at most                *)
(* ETP_PS2_COMMAND_TRIES attempts, no attempt after one that succeeded,    *)
(* and it returns failure exactly when every attempt failed; no step of    *)
(* the driver holds more failed attempts in a row within an exchange.  The       *)
(* read-back loop makes at most ETP_READ_BACK_TRIES reads of register      *)
(* 0x10 in a step.                                                         *)
(***************************************************************************)
C15_BoundedRetries ==
    /\ op = "elantech_ps2_command" =>
          /\ Cardinality(Attempts) \in 1 .. ETP_PS2_COMMAND_TRIES
          /\ \A i, j \in Attempts : i < j => trace[i].failed
          /\ scratch.rc # 0 <=> \A i \in Attempts : trace[i].failed
    /\ \A i \in 1 .. Len(trace) : ~FailedInARow(trace, i, ETP_PS2_COMMAND_TRIES + 1)
    /\ Cardinality(ExchangesOf(trace, "read")) <= ETP_READ_BACK_TRIES

\* the command is answered at the last attempt, after two that were not
C15_Witness ==
    /\ op = "elantech_ps2_command"
    /\ device.nacks = ETP_PS2_COMMAND_TRIES - 1
    /\ Cardinality(Attempts) = ETP_PS2_COMMAND_TRIES
    /\ scratch.rc = 0

\* the read of register 0x10 is given up after ETP_READ_BACK_TRIES reads
C15_WitnessReadBack ==
    /\ op = "start"
    /\ Cardinality(ExchangesOf(trace, "read")) = ETP_READ_BACK_TRIES
    /\ \A x \in ExchangesOf(trace, "read") : ExchangeFailed(trace, x)

\* the register reads and writes of the trace
RegisterExchanges == ExchangesOf(trace, "read") \cup ExchangesOf(trace, "write")

\* the register an exchange has addressed, if it came that far
RegisterOf(tr, x) ==
    { tr[j].data : j \in { k \in 1 .. Len(tr) : tr[k].exchange = x /\ tr[k].command = "reg" } }

\* exchange y begins after exchange x has ended
Later(tr, x, y) == \A i \in RequestsOf(tr, x), j \in RequestsOf(tr, y) : i < j

\* the request at i was left unanswered and is not tried again
Exhausted(tr, i) ==
    /\ tr[i].fn # "IOSleep"
    /\ tr[i].failed
    /\ \/ i + 1 > Len(tr)
       \/ tr[i + 1].command # "ETP_PS2_COMMAND_DELAY"
       \/ /\ i > 2 * (ETP_PS2_COMMAND_TRIES - 1)
          /\ FailedInARow(tr, i - 2 * (ETP_PS2_COMMAND_TRIES - 1), ETP_PS2_COMMAND_TRIES)

SetupRun == op \in { "start", "wake" }

(***************************************************************************)
(* C16 as stated: within a setup run no register read or write follows a   *)
(* register read or write that failed.                                     *)
(***************************************************************************)
C16_AsStated ==
    SetupRun =>
        \A x \in RegisterExchanges :
            ExchangeFailed(trace, x) =>
                \A y \in RegisterExchanges : ~Later(trace, x, y)

(***************************************************************************)
(* C16: a request that has exhausted its retries ends its exchange: no     *)
(* further request of that register read or write is sent.  Within a setup *)
(* run a failed read of register 0x10 is followed by nothing but the       *)
(* further reads of the read-back loop, and when the last of them failed   *)
(* too the setup is given up; a failed register write is followed by no    *)
(* register access and no register is written twice, except on the         *)
(* ETD0180 (firmware 0x381f17), where register 0x07 alone is written, up   *)
(* to four times: after a failed absolute-mode setup once more and, if     *)
(* that write succeeded, by one more absolute-mode setup.                  *)
(***************************************************************************)
C16_FailureEndsSetup ==
    /\ \A i \in 1 .. Len(trace) :
          Exhausted(trace, i) =>
              \A j \in RequestsOf(trace, trace[i].exchange) : j <= i
    /\ SetupRun =>
          /\ \A x \in ExchangesOf(trace, "read") :
                ExchangeFailed(trace, x) =>
                    /\ \A y \in ExchangesOf(trace, "write") : ~Later(trace, x, y)
                    /\ x[2] = Cardinality(ExchangesOf(trace, "read")) =>
                          ExchangesOf(trace, "init") = { }
          /\ ~IS_ETD0180(Driver) =>
                /\ \A x \in ExchangesOf(trace, "write") :
                      ExchangeFailed(trace, x) =>
                          /\ \A y \in RegisterExchanges : ~Later(trace, x, y)
                          /\ ExchangesOf(trace, "init") = { }
                /\ \A x, y \in ExchangesOf(trace, "write") :
                      x # y => RegisterOf(trace, x) \cap RegisterOf(trace, y) = { }
          /\ IS_ETD0180(Driver) =>
                /\ Cardinality(ExchangesOf(trace, "write")) <= 4
                /\ \A x \in ExchangesOf(trace, "write") : RegisterOf(trace, x) \subseteq { 7 }
                /\ ExchangesOf(trace, "read") = { }
                /\ ExchangeFailed(trace, << "write", 1 >>) =>
                      /\ ExchangeFailed(trace, << "write", 2 >>) =>
                            Cardinality(ExchangesOf(trace, "write")) = 2
                      /\ ExchangesOf(trace, "init") # { } =>
                            Cardinality(ExchangesOf(trace, "write")) = 4

\* a version 2 pad leaves its second register write unanswered: the third
\* register is not written and the resolution is not set
C16_Witness ==
    /\ op = "start"
    /\ info.hw_version = 2
    /\ ExchangesOf(trace, "write") = { << "write", 1 >>, << "write", 2 >> }
    /\ ExchangeFailed(trace, << "write", 2 >>)
    /\ ExchangesOf(trace, "read") = { }
    /\ ExchangesOf(trace, "init") = { }

(***************************************************************************)
(* Packets that are dropped: each hardware version is sent valid packets   *)
(* and packets that fail its check, in any order.                          *)
(***************************************************************************)
DevicesDrop == { DeviceV1, DeviceV2, DeviceV3, DeviceV4 }

\* packets with wrong parity, wrong constant bits or an unknown type
InvalidPackets(dev) ==
    CASE dev = DeviceV1 -> { << 8, 1, 0, 0 >>, << 64, 100, 50, 0 >> }
      [] dev = DeviceV2 -> { PacketV3(PACKET_V3_TAIL, 2, 700, 1100, 0),
                               << 65, 0, 0, 0, 0, 0 >> }
      [] dev = DeviceV3 -> { << 0, 0, 0, 0, 0, 0 >>, << 1, 2, 3, 4, 5, 6 >> }
      [] OTHER -> { << 0, 1, 0, 0, 0, 0 >>, << 0, 0, 0, 19, 0, 0 >>,
                    << 9, 1, 44, 17, 2, 88 >> }

ValidPackets(dev) ==
    CASE dev = DeviceV1 -> { PacketV1(1, 100, 50, 0), PacketV1(2, 300, 200, 1) }
      [] dev = DeviceV2 -> { PacketV2(1, 500, 400, 0), PacketV2Two(60, 50, 130, 40, 1) }
      [] dev = DeviceV3 -> { PacketV3(PACKET_V3_HEAD, 1, 2000, 1500, 1),
                               PacketV3(PACKET_V3_HEAD, 2, 300, 200, 0),
                               PacketV3(PACKET_V3_TAIL, 2, 700, 1100, 0) }
      [] OTHER -> { StatusV4(3, 0), HeadV4(0, 100, 200, 1), HeadV4(1, 500, 600, 0),
                    MotionV4(0, 2, 1, 1, 1, 255, 2) }

InitDrop == Constructed /\ device \in DevicesDrop

NextDrop ==
    \/ Probe(DefaultConfig)
    \/ Start
    \/ HandleOpen
    \/ \E p \in ValidPackets(device) \cup InvalidPackets(device) : ReceivePacket(p)

SpecDrop == InitDrop /\ [][NextDrop]_vars

\* the driver object without the positions of the ring and without what
\* the last step sent and logged
Settled(d) ==
    [ d EXCEPT !.ringBuffer = EmptyRing, !.out = << >>, !.trace = << >>,
               !.lastPacketType = PACKET_UNKNOWN ]

\* the driver object after the packet p, without the positions of the ring
AfterPacket(d, p) ==
    [ packetReady(FeedBytes(d, p), now) EXCEPT !.ringBuffer = EmptyRing ]

(***************************************************************************)
(* C17: a packet that fails the check of its hardware version, or that is  *)
(* classified PACKET_UNKNOWN, is dropped: the virtual-finger slots, the    *)
(* buttons, the coordinate bounds, the V4 head count and every other field *)
(* of the driver stay as they were, nothing is sent to the consumer, the   *)
(* tail of the ring advances by one packet length and the ring is empty    *)
(* again, and any packet that follows is processed as it would have been   *)
(* without the dropped one.                                                *)
(***************************************************************************)
C17_DroppedSilently ==
    [][ ( /\ op' = "packet"
          /\ \/ lastPacketType' = PACKET_UNKNOWN
             \/ delivered'[Len(delivered')] \in InvalidPackets(device) ) =>
          /\ lastPacketType' = PACKET_UNKNOWN
          /\ virtualFinger' = virtualFinger
          /\ buttons' = buttons
          /\ << info.x_min, info.x_max, info.y_min, info.y_max >>' =
                << info.x_min, info.x_max, info.y_min, info.y_max >>
          /\ headPacketsCount' = headPacketsCount
          /\ out' = << >>
          /\ ringBuffer'.tail = (ringBuffer.tail + packetLength) % RingCapacity
          /\ ringBuffer'.count = ringBuffer.count
          /\ ringBuffer'.head = ringBuffer'.tail
          /\ Settled(Driver)' = Settled(Driver)
          /\ \A p \in ValidPackets(device) \cup InvalidPackets(device) :
                AfterPacket(Fresh', p) = AfterPacket(Fresh, p) ]_vars

\* a V4 packet with wrong constant bits has been dropped while a finger is
\* down and a consumer is open
C17_Witness ==
    /\ op = "packet"
    /\ lastPacketType = PACKET_UNKNOWN
    /\ delivered[Len(delivered)] = << 0, 1, 0, 0, 0, 0 >>
    /\ info.hw_version = 4
    /\ voodooInputInstance
    /\ \E i \in Slots : virtualFinger[i].touch
    /\ out = << >>

(***************************************************************************)
(* The reset request: message(kPS2M_resetTouchpad) with each request code, *)
(* on started drivers that hold complete and partial packets, and on       *)
(* devices whose setup fails or is retried.                                *)
(***************************************************************************)
DevicesReset ==
    { DeviceV4, DeviceV1,
      [ DeviceV2 EXCEPT !.fails = { "write" } ],
      [ DeviceETD0180 EXCEPT !.once = { << "write", 1 >> } ] }

RequestCodes == { 0, 1, 2 }

InitReset == Constructed /\ device \in DevicesReset

ResetTouchpad(reqCode) ==
    /\ phase = "started"
    /\ Becomes(resetTouchpad(Fresh, device, reqCode))
    /\ stream' = IF reqCode = 1 THEN << >> ELSE stream
    /\ results' = IF reqCode = 1 THEN << >> ELSE results
    /\ scratch' = [ reqCode |-> reqCode ]
    /\ op' = "resetTouchpad"
    /\ UNCHANGED << now, delivered, total, phase, device >>

NextReset ==
    \/ Probe(DefaultConfig)
    \/ Start
    \/ InterruptOccurred(17)
    \/ PacketReady
    \/ \E reqCode \in RequestCodes : ResetTouchpad(reqCode)

SpecReset == InitReset /\ [][NextReset]_vars

\* the names of the exchanges of a trace, in the order in which they begin
RECURSIVE StepsOf(_)
StepsOf(tr) ==
    IF tr = << >> THEN << >>
    ELSE LET rest == StepsOf(Tail(tr))
             name == Head(tr).exchange[1]
         IN  IF rest # << >> /\ Head(rest) = name THEN rest ELSE << name >> \o rest

\* elantechSetupPS2 as it shows in a trace: register writes, the reads of the
\* read-back, and the request that sets resolution and rate
SetupSteps == { "write", "read", "read_back", "init" }

(***************************************************************************)
(* C18: message(kPS2M_resetTouchpad) with request code 1 does, in this     *)
(* order and each once: setTouchPadEnable(false), IOSleep(wakedelay), the  *)
(* clearing of _packetByteCount and of the ring, resetMouse,               *)
(* elantechSetupPS2, setTouchPadEnable(true).  With any other code it      *)
(* sends nothing and changes nothing.                                      *)
(***************************************************************************)
C18_ResetSequence ==
    [][ op' = "resetTouchpad" =>
          IF scratch'.reqCode = 1
          THEN LET steps == StepsOf(trace')
                   n == Len(steps)
               IN  /\ n >= 6
                   /\ SubSeq(steps, 1, 4) = << "disable", "sleep", "clear", "reset" >>
                   /\ \A i \in 5 .. n - 1 : steps[i] \in SetupSteps
                   /\ steps[5] = "write"
                   /\ steps[n] = "enable"
                   /\ \A name \in { "disable", "sleep", "clear", "reset", "enable" } :
                         Cardinality(EntriesOf(trace', name)) = 1
                   /\ trace'[2].command = "wakedelay"
                   /\ Cardinality(ExchangesOf(trace', "init")) <= 1
                   /\ packetByteCount' = 0
                   /\ ringBuffer'.count = 0
                   /\ ~ignoreall'
          ELSE /\ trace' = << >>
               /\ Fresh' = Fresh ]_vars

\* a reset with half a packet in the ring
C18_Witness ==
    /\ op = "resetTouchpad"
    /\ scratch.reqCode = 1
    /\ info.hw_version = 4
    /\ total = 9
    /\ delivered # << >>
    /\ packetByteCount = 0
    /\ Cardinality(EntriesOf(trace, "enable")) = 1

(***************************************************************************)
(* The life cycle of the virtual fingers: a V4 touchpad that reports       *)
(* fingers, is powered down, woken and reset.                              *)
(***************************************************************************)
PacketsLift ==
    { StatusV4(0, 0), StatusV4(1, 0), StatusV4(3, 0),
      HeadV4(0, 100, 200, 0), HeadV4(1, 500, 600, 0) }

InitLift == Constructed /\ device = DeviceV4

\* the machine goes to sleep: setDevicePowerState(kPS2C_DisableDevice)
PowerDown ==
    /\ phase = "started"
    /\ op # "powerDown"
    /\ Becomes(setDevicePowerState(Fresh, device, kPS2C_DisableDevice))
    /\ op' = "powerDown"
    /\ UNCHANGED << now, History, phase, device, scratch >>

NextLift ==
    \/ Probe(DefaultConfig)
    \/ Start
    \/ HandleOpen
    \/ \E p \in PacketsLift : ReceivePacket(p)
    \/ PowerDown
    \/ WakeUp
    \/ ResetTouchpad(1)

SpecLift == InitLift /\ [][NextLift]_vars

AllUntouched == \A i \in Slots : ~virtualFinger[i].touch

(***************************************************************************)
(* C19: every virtual-finger slot is untouched after start, after a Status *)
(* packet that reports no finger, after a power-down                       *)
(* (kPS2C_DisableDevice) and after a reset request (kPS2M_resetTouchpad).  *)
(***************************************************************************)
C19_SlotsClearedAtLifecycle ==
    /\ op = "start" => AllUntouched
    /\ (op = "packet" /\ delivered[Len(delivered)] = StatusV4(0, 0)) => AllUntouched
    /\ op = "powerDown" => AllUntouched
    /\ op = "resetTouchpad" => AllUntouched

(***************************************************************************)
(* Negotiation that is given up: probe() on touchpads that answer the      *)
(* knock and then leave a query unanswered, report a firmware version of   *)
(* no hardware version, or report values the driver rejects.               *)
(***************************************************************************)
VersionsAbort ==
    { << 70, 15, 0 >>, << 5, 1, 0 >>, << 2, 8, 0 >>, << 2, 6, 1 >>, << 20, 0, 0 >>,
      << 2, 0, 34 >>, << 3, 0, 0 >>, << 16, 0, 0 >> }

CapabilitiesAbort == { << 128, 16, 8 >>, << 0, 1, 0 >>, << 0, 20, 12 >> }

SamplesAbort == { << 0, 0, 0 >>, << 0, 116, 0 >> }

FwIdAbort == { << 140, 0, 0 >>, << 0, 5, 0 >>, << 0, 16, 0 >> }

FailsAbort ==
    { { }, { "capabilities" }, { "samples" }, { "resolution" }, { "fw_id" } }

OnceAbort == { { }, { << "version", 2 >> }, { << "samples", 2 >> } }

DevicesAbort ==
    { [ Touchpad(v, c, s, f) EXCEPT !.fails = x, !.once = o ] :
        v \in VersionsAbort, c \in CapabilitiesAbort, s \in SamplesAbort,
        f \in FwIdAbort, x \in FailsAbort, o \in OnceAbort }

InitAbort == Constructed /\ device \in DevicesAbort

NextAbort ==
    \/ Probe(DefaultConfig)
    \/ Start

SpecAbort == InitAbort /\ [][NextAbort]_vars

\* the firmware version the device reports and the hardware version the
\* table of the specification gives for it; 0 where there is none
ReportedFw == device.version[1] * 65536 + device.version[2] * 256 + device.version[3]

ReportedHw ==
    LET body == device.version[1] % 16
    IN  IF ReportedFw < 2 * 65536 + 48 \/ ReportedFw = 2 * 65536 + 6 * 256 THEN 1
        ELSE IF body \in { 2, 4 } THEN 2
        ELSE IF body = 5 THEN 3
        ELSE IF body \in 6 .. 15 THEN 4
        ELSE 0

\* the version 2 firmware whose range is asked of the device
AsksRangeV2 ==
    /\ ReportedHw = 2
    /\ ReportedFw \notin { 2 * 65536 + 8 * 256, 2 * 65536 + 11 * 256, 2 * 65536 + 48 }

\* the x range a version 4 pad reports in its firmware id
ReportedXMax == (device.fw_id[1] % 16) * 256 + device.fw_id[2]

\* a step of the negotiation fails, the resolution query left aside
StepFails ==
    \/ << "version", 2 >> \in device.once
    \/ ReportedHw = 0
    \/ "capabilities" \in device.fails
    \/ ReportedHw # 1 /\ "samples" \in device.fails
    \/ ReportedHw = 3 /\ device.samples[2] = 116
    \/ (ReportedHw \in { 3, 4 } \/ AsksRangeV2) /\ "fw_id" \in device.fails
    \/ /\ AsksRangeV2
       /\ device.version[1] = 20
       /\ BitAnd(device.fw_id[2], 16) # 0
       /\ << "samples", 2 >> \in device.once
    \/ /\ ReportedHw = 4
       /\ device.capabilities[2] < 2 \/ device.capabilities[2] > ReportedXMax

ResolutionFails == ReportedHw = 4 /\ "resolution" \in device.fails

(***************************************************************************)
(* C20 as stated: when a query of the negotiation fails, the resolution    *)
(* query among them, or a reported value is rejected, probe declines the   *)
(* device.                                                                 *)
(***************************************************************************)
C20_AsStated ==
    op = "probe" /\ (StepFails \/ ResolutionFails) => phase = "failed"

(***************************************************************************)
(* C20: if the firmware-version, capability, sample or firmware-id / range *)
(* query fails, or the firmware version has no hardware version, or (v3)   *)
(* sample byte 1 is 0x74, or (v4) the x trace count is below 2 or above    *)
(* x_max, probe declines the device and nothing is done with it            *)
(* afterwards.  A failed resolution query (v4) does not end the            *)
(* negotiation: x_res and y_res keep the default 31 and, if no other step  *)
(* fails, probe accepts the device.                                        *)
(***************************************************************************)
C20_FailedStepAborts ==
    /\ StepFails => phase \in { "constructed", "failed" }
    /\ phase = "failed" => op = "probe"
    /\ (op = "probe" /\ ~StepFails) => phase = "probed"
    /\ (op = "probe" /\ ~StepFails /\ ResolutionFails) =>
          /\ info.x_res = 31
          /\ info.y_res = 31

\* a version 4 pad leaves the firmware-id query unanswered
C20_Witness ==
    /\ op = "probe"
    /\ phase = "failed"
    /\ ReportedHw = 4
    /\ device.fails = { "fw_id" }
    /\ EntriesOf(trace, "fw_id") # { }
    /\ EntriesOf(trace, "resolution") # { }

(***************************************************************************)
(* The synthetic triangle of a three-finger report.                        *)
(***************************************************************************)
\* trunc(cos 30deg * h): cos 30deg is sqrt(3) / 2, so the largest n with
\* (2 n)^2 <= 3 h^2
TruncCos30(h) == CHOOSE n \in 0 .. h : 4 * n * n <= 3 * h * h /\ 3 * h * h < 4 * (n + 1) * (n + 1)

\* trunc(sin 30deg * h): sin 30deg is 1 / 2
TruncSin30(h) == h \div 2

\* the real coordinate a V1 packet carries
DecodedV1(p) ==
    [ x |-> BitOr(Shl(BitAnd(Byte(p, 1), 12), 6), Byte(p, 2)),
      y |-> info.y_max - BitOr(Shl(BitAnd(Byte(p, 1), 3), 8), Byte(p, 3)) ]

\* C21: on V1 hardware, after a packet with finger count 3 and decoded
\* coordinate (x, y), the current positions of slots 0, 1 and 2 are
\* (x, y - 100), (x - dx, y + dy) and (x + dx, y + dy) with
\* dx = trunc(cos 30deg * 100) and dy = trunc(sin 30deg * 100), whatever the
\* slots held before and whatever the finger count of the packet before was.
C21_ThreeFingerTriangle ==
    ( /\ op = "packet"
      /\ info.hw_version = 1
      /\ lastPacketType = "PACKET_V1"
      /\ FingerCount(LastPacket) = 3 )
    => LET c == DecodedV1(LastPacket)
           dx == TruncCos30(100)
           dy == TruncSin30(100)
       IN  /\ virtualFinger[0].now = [ x |-> c.x, y |-> c.y - 100 ]
           /\ virtualFinger[1].now = [ x |-> c.x - dx, y |-> c.y + dy ]
           /\ virtualFinger[2].now = [ x |-> c.x + dx, y |-> c.y + dy ]

\* a three-finger packet right after a two-finger packet, which had put
\* slot 1 to the right of its coordinate: slot 1 is to the left now
C21_Witness ==
    /\ op = "packet"
    /\ info.hw_version = 1
    /\ lastPacketType = "PACKET_V1"
    /\ Len(delivered) >= 2
    /\ FingerCount(LastPacket) = 3
    /\ FingerCount(delivered[Len(delivered) - 1]) = 2
    /\ virtualFinger[1].now.x < DecodedV1(LastPacket).x

(***************************************************************************)
(* The slots a V4 Motion packet works on.                                  *)
(***************************************************************************)
\* the second finger id of a Motion packet
MotionSid(p) == Shr(BitAnd(Byte(p, 3), 224), 5) - 1

\* C22: processing a V4 Motion or Head packet only reads and writes slots
\* 0 .. 4 of virtualFinger: whatever the 3-bit id fields of bytes 0 and 3
\* hold, the packet is dropped (nothing emitted) or every slot index it
\* uses is inside the array.
C22_MotionSlotsInArray ==
    /\ ~outOfBounds
    /\ ( /\ op = "packet"
         /\ lastPacketType = PACKET_V4_MOTION
         /\ out # << >> )
       => /\ MotionId(LastPacket) \in Slots
          /\ MotionSid(LastPacket) \in Slots \cup { -1 }

(***************************************************************************)
(* Hardware version 3 and the two packets of a two-finger report: heads    *)
(* and tails inside and outside the negotiated range, with packets that    *)
(* are dropped and one-finger reports in between.                          *)
(***************************************************************************)
PacketsPair ==
    { PacketV3(PACKET_V3_HEAD, 2, 300, 200, 0),
      PacketV3(PACKET_V3_HEAD, 2, 1500, 1200, 1),
      PacketV3(PACKET_V3_TAIL, 2, 700, 1100, 0),
      PacketV3(PACKET_V3_TAIL, 2, 2000, 1500, 0),
      PacketV3(PACKET_V3_HEAD, 1, 500, 400, 0),
      PacketV3(PACKET_V3_HEAD, 3, 1100, 600, 0),
      DebounceV3, << 0, 0, 0, 0, 0, 0 >> }

InitPair == Constructed /\ device = DeviceV3

NextPair ==
    \/ Probe(DefaultConfig)
    \/ Start
    \/ HandleOpen
    \/ \E p \in PacketsPair : ReceivePacket(p)

SpecPair == InitPair /\ [][NextPair]_vars

\* the coordinate pair bytes 1, 2 and 4, 5 of a V3 packet carry
PairV3(p) ==
    [ x |-> BitOr(Shl(BitAnd(Byte(p, 1), 15), 8), Byte(p, 2)),
      y |-> BitOr(Shl(BitAnd(Byte(p, 4), 15), 8), Byte(p, 5)) ]

\* the packet is one half of a two-finger report on this touchpad
TwoFingerHalf(p, type) ==
    /\ elantechPacketCheckV3(Driver, p) = type
    /\ FingerCount(p) = 2

\* C23 as stated: the frame of a two-finger Tail carries, as finger 1, the
\* coordinates of the two-finger Head that was the packet right before it,
\* never those an older Head staged.
C23_AsStated ==
    [][ ( /\ op' = "packet"
          /\ info.hw_version = 3
          /\ TwoFingerHalf(delivered'[Len(delivered')], PACKET_V3_TAIL)
          /\ out' # << >> )
        => /\ delivered # << >>
           /\ TwoFingerHalf(LastPacket, PACKET_V3_HEAD)
           /\ virtualFinger'[0].now = [ x |-> PairV3(LastPacket).x,
                                        y |-> info.y_max - PairV3(LastPacket).y ] ]_vars

\* C23: on V3 hardware a two-finger Head only stages its pair (x, y_max - y)
\* and emits nothing; no other packet touches the staged pair; the frame of
\* a two-finger Tail has as finger 1 the staged pair, that is the pair of
\* the most recent two-finger Head however many packets lie in between, and
\* as finger 2 the pair of the Tail.
C23_StagedUntilTail ==
    [][ (op' = "packet" /\ info.hw_version = 3)
        => LET p == delivered'[Len(delivered')]
               head == TwoFingerHalf(p, PACKET_V3_HEAD)
               tail == TwoFingerHalf(p, PACKET_V3_TAIL)
           IN  /\ head => /\ etd'.mt0 = [ x |-> PairV3(p).x,
                                          y |-> info.y_max - PairV3(p).y ]
                          /\ out' = << >>
                          /\ << virtualFinger', info', buttons', lastFingers',
                                inputEvent', exported' >>
                             = << virtualFinger, info, buttons, lastFingers,
                                  inputEvent, exported >>
               /\ ~head => etd'.mt0 = etd.mt0
               /\ tail => /\ virtualFinger'[0].touch /\ virtualFinger'[1].touch
                          /\ virtualFinger'[0].now = etd.mt0
                          /\ virtualFinger'[1].now = [ x |-> PairV3(p).x,
                                                       y |-> info'.y_max - PairV3(p).y ]
                          /\ voodooInputInstance
                             => /\ Len(TouchFrames') = 1
                                /\ TouchFrames'[1].event.contact_count = 2
                                /\ LET t == TouchFrames'[1].event.transducers
                                   IN  /\ t[0].currentCoordinates.x = etd.mt0.x
                                       /\ t[0].currentCoordinates.y = etd.mt0.y
                                       /\ t[1].currentCoordinates.x = PairV3(p).x ]_vars

\* a two-finger Tail has been reported with the pair of a Head that was not
\* the packet before it: a debounce packet lies in between
C23_Witness ==
    /\ op = "packet"
    /\ Len(delivered) = 3
    /\ TwoFingerHalf(delivered[1], PACKET_V3_HEAD)
    /\ delivered[2] = DebounceV3
    /\ TwoFingerHalf(delivered[3], PACKET_V3_TAIL)
    /\ voodooInputInstance
    /\ Len(TouchFrames) = 1
    /\ TouchFrames[1].event.transducers[0].currentCoordinates.x = PairV3(delivered[1]).x

(***************************************************************************)
(* The Head packets a V4 frame waits for.                                  *)
(***************************************************************************)
\* the slots that have received a Head packet of their own since the most
\* recent Status
SlotsWithHeadSinceStatus == HeadIdsSinceStatus \cap Slots

\* C24: on V4 hardware, when a Head packet emits the frame that follows a
\* Status packet reporting N > 0 fingers, every slot that Status marked
\* touched has received its own valid Head packet since the Status; a Head
\* with an invalid finger id and a second Head for the same id do not count
\* toward the N awaited.
C24_EveryTouchedSlotHasItsHead ==
    ( /\ op = "packet"
      /\ info.hw_version = 4
      /\ lastPacketType = PACKET_V4_HEAD
      /\ LastStatusIndex > 0
      /\ MaskOf(delivered[LastStatusIndex]) # { }
      /\ TouchFrames # << >> )
    => MaskOf(delivered[LastStatusIndex]) \subseteq SlotsWithHeadSinceStatus

(***************************************************************************)
(* Hardware version 4 and its Motion packets: one and two fingers, with    *)
(* and without the weight bit, deltas of both signs, a packet that names   *)
(* one finger twice and one with no finger.                                *)
(***************************************************************************)
PacketsMotion ==
    { StatusV4(5, 0), HeadV4(0, 100, 200, 0), HeadV4(2, 300, 400, 1),
      MotionV4(0, 2, 1, 1, 1, 255, 2), MotionV4(2, -1, 0, 254, 3, 7, 7),
      MotionV4(4, 0, 0, 128, 127, 1, 255), MotionV4(1, 1, 0, 2, 2, 3, 3),
      MotionV4(-1, 0, 0, 1, 1, 1, 1) }

NextMotion ==
    \/ Probe(DefaultConfig)
    \/ Start
    \/ HandleOpen
    \/ \E p \in PacketsMotion : ReceivePacket(p)

SpecMotion == InitV4 /\ [][NextMotion]_vars

\* a byte read as a signed 8-bit number
Signed8(b) == IF b >= 128 THEN b - 256 ELSE b

\* the slots a Motion packet names, and the delta it carries for each
MotionSlots(p) == { MotionId(p), MotionSid(p) } \cap Slots

MotionDelta(p, i) ==
    IF i = MotionId(p)
    THEN [ x |-> Signed8(Byte(p, 1)), y |-> Signed8(Byte(p, 2)) ]
    ELSE [ x |-> Signed8(Byte(p, 4)), y |-> Signed8(Byte(p, 5)) ]

MotionWeight(p) == IF BitAnd(Byte(p, 0), 16) # 0 THEN ETP_WEIGHT_VALUE ELSE 1

DevicesHistory == DevicesV123 \cup DevicesV4

PacketsHistory(dev) == IF dev \in DevicesV4 THEN PacketsMotion ELSE PacketsOf(dev)

InitHistory == Constructed /\ device \in DevicesHistory

NextHistory ==
    \/ Probe(DefaultConfig)
    \/ Start
    \/ HandleOpen
    \/ \E p \in PacketsHistory(device) : ReceivePacket(p)

SpecHistory == InitHistory /\ [][NextHistory]_vars

\* the slot a V4 Head packet updates: the ETD0180 takes slot 0 for an id
\* outside the array
HeadSlot(p) ==
    IF IS_ETD0180(Driver) /\ HeadId(p) \notin Slots THEN 0 ELSE HeadId(p)

\* the slots the packet p, classified as type, updates from the present state
UpdatedSlots(p, type) ==
    CASE type \in { "PACKET_V1", "PACKET_V2", PACKET_V3_HEAD, PACKET_V3_TAIL } ->
           IF \/ FingerCount(p) \notin 1 .. 3
              \/ type = PACKET_V3_HEAD /\ FingerCount(p) = 2
              \/ /\ type = "PACKET_V1" /\ info.jumpy_cursor /\ FingerCount(p) = 1
                 /\ etd.single_finger_reports < 2
           THEN { }
           ELSE 0 .. (FingerCount(p) - 1)
      [] type = PACKET_V4_HEAD -> { HeadSlot(p) } \cap Slots
      [] type = PACKET_V4_MOTION ->
           IF MotionId(p) \in Slots /\ MotionSid(p) \in Slots \cup { -1 }
           THEN MotionSlots(p) ELSE { }
      [] OTHER -> { }

\* the packet's finger count does not continue the one before, as the V1,
\* V2 and V3 handlers judge it for slot i
CountChanged(p, i) ==
    /\ info.hw_version \in { 1, 2, 3 }
    /\ IF info.hw_version = 1 \/ FingerCount(p) = 3 THEN lastFingers # FingerCount(p)
       ELSE IF i = 0 THEN lastFingers \notin { 1, 2 }
       ELSE lastFingers # 2

\* C26 as stated: on every update of a slot by a V1, V2, V3 or V4 packet the
\* slot's prev after the update is its now of before the update.
C26_AsStated ==
    [][ op' = "packet"
        => \A i \in UpdatedSlots(delivered'[Len(delivered')], lastPacketType') :
               (MotionSid(delivered'[Len(delivered')]) # i \/ info.hw_version # 4
                \/ lastPacketType' # PACKET_V4_MOTION
                \/ MotionId(delivered'[Len(delivered')]) # i)
               => virtualFinger'[i].prev = virtualFinger[i].now ]_vars

\* C26: on every update of a slot by a V4 Head or Motion packet, and by a
\* V1, V2 or V3 packet whose finger count continues that of the packet
\* before, the slot's prev after the update is its now of before the
\* update; when the finger count has changed, the V1, V2 and V3 handlers
\* set prev to the new now.  (A Motion packet naming one finger twice is two
\* updates: prev is the now between them.)
C26_HistoryButForCountChange ==
    [][ op' = "packet"
        => LET p == delivered'[Len(delivered')]
           IN  \A i \in UpdatedSlots(p, lastPacketType') :
                   virtualFinger'[i].prev =
                       IF CountChanged(p, i) THEN virtualFinger'[i].now
                       ELSE IF /\ lastPacketType' = PACKET_V4_MOTION
                               /\ MotionId(p) = i /\ MotionSid(p) = i
                            THEN [ x |-> virtualFinger[i].now.x
                                         + Signed8(Byte(p, 1)) * MotionWeight(p),
                                   y |-> virtualFinger[i].now.y
                                         - Signed8(Byte(p, 2)) * MotionWeight(p) ]
                            ELSE virtualFinger[i].now ]_vars

\* a V3 touchpad has reported one finger at two places in a row: the slot
\* holds both samples
C26_Witness ==
    /\ op = "packet"
    /\ info.hw_version = 3
    /\ Len(delivered) >= 2
    /\ LastPacket = PacketV3(PACKET_V3_HEAD, 1, 500, 400, 0)
    /\ delivered[Len(delivered) - 1] = PacketV3(PACKET_V3_HEAD, 1, 2000, 1500, 1)
    /\ virtualFinger[0].now.x = 500
    /\ virtualFinger[0].prev.x = 2000

\* a finger count that changed: the slot holds the new sample twice
C26_WitnessCountChange ==
    /\ op = "packet"
    /\ info.hw_version = 2
    /\ Len(delivered) >= 2
    /\ FingerCount(LastPacket) = 3
    /\ FingerCount(delivered[Len(delivered) - 1]) = 1
    /\ virtualFinger[0].prev = virtualFinger[0].now

(***************************************************************************)
(* Hardware version 1 with and without a jumpy cursor: firmware 0x020022   *)
(* and 0x020010.                                                           *)
(***************************************************************************)
DeviceV1Steady == Touchpad(<< 2, 0, 16 >>, << 0, 0, 0 >>, << 0, 0, 0 >>, << 0, 0, 0 >>)

DevicesJumpy == { DeviceV1, DeviceV1Steady }

PacketsJumpy ==
    { PacketV1(0, 0, 0, 0), PacketV1(1, 100, 50, 0), PacketV1(1, 120, 60, 1),
      PacketV1(2, 300, 200, 0), << 8, 1, 0, 0 >> }

InitJumpy == Constructed /\ device \in DevicesJumpy

NextJumpy ==
    \/ Probe(DefaultConfig)
    \/ Start
    \/ HandleOpen
    \/ \E p \in PacketsJumpy : ReceivePacketWithin(p, MaxSingles)

SpecJumpy == InitJumpy /\ [][NextJumpy]_vars

\* the packet passes the check packetReady makes of a V1 packet
AcceptedV1(p) == info.paritycheck => elantechPacketCheckV1(Driver, p)

\* the number of single-finger packets at the end of seq, since the last
\* accepted packet of another finger count, packets that were dropped as
\* invalid not counted
RECURSIVE SinglesInARow(_)
SinglesInARow(seq) ==
    IF seq = << >> THEN 0
    ELSE LET p == seq[Len(seq)]
             before == SubSeq(seq, 1, Len(seq) - 1)
         IN  IF ~AcceptedV1(p) THEN SinglesInARow(before)
             ELSE IF FingerCount(p) = 1 THEN 1 + SinglesInARow(before)
             ELSE 0

\* C27: on a V1 touchpad with jumpy_cursor, the first two single-finger
\* packets after a packet of another finger count (and after the start) are
\* discarded entirely: no slot, button or lastFingers change and no frame;
\* the third and later single-finger packets in a row are processed.
\* Without jumpy_cursor every single-finger packet is processed.
C27_JumpyCursorDiscards ==
    [][ LET p == delivered'[Len(delivered')]
        IN  ( /\ op' = "packet"
              /\ info.hw_version = 1
              /\ lastPacketType' = "PACKET_V1"
              /\ FingerCount(p) = 1 )
            => IF info.jumpy_cursor /\ SinglesInARow(delivered') <= 2
               THEN /\ << virtualFinger', buttons', lastFingers', inputEvent', mbutton' >>
                       = << virtualFinger, buttons, lastFingers, inputEvent, mbutton >>
                    /\ out' = << >>
               ELSE /\ lastFingers' = 1
                    /\ virtualFinger'[0].touch
                    /\ virtualFinger'[0].now = DecodedV1(p)
                    /\ buttons'.left = BitAnd(Byte(p, 0), 1)
                    /\ Len(TouchFrames') = IF voodooInputInstance THEN 1 ELSE 0 ]_vars

\* a two-finger packet and three single-finger packets on the touchpad with
\* the jumpy cursor: the third has been reported
C27_Witness ==
    /\ op = "packet"
    /\ info.jumpy_cursor
    /\ Len(delivered) = 4
    /\ FingerCount(delivered[1]) = 2
    /\ SinglesInARow(delivered) = 3
    /\ lastFingers = 1
    /\ Len(TouchFrames) = 1
    /\ TouchFrames[1].event.contact_count = 1

\* the same touchpad after a two-finger packet and two single-finger
\* packets: both were discarded and the two fingers are still reported
C27_WitnessDiscarded ==
    /\ op = "packet"
    /\ info.jumpy_cursor
    /\ Len(delivered) = 3
    /\ FingerCount(delivered[1]) = 2
    /\ SinglesInARow(delivered) = 2
    /\ lastFingers = 2
    /\ out = << >>
    /\ voodooInputInstance

(***************************************************************************)
(* The reset request and the power resume, step by step.  Each handler     *)
(* gives up the processor at its blocking calls (a request to the port,    *)
(* IOSleep), and there the controller may hand a byte to interruptOccurred *)
(* or call packetReady; the statements between two blocking calls run as   *)
(* one step.  phase is the position of the handler: what it has done last. *)
(* Every byte the device sends is stamped with its number, so that no two  *)
(* bytes of a behaviour are equal.                                         *)
(***************************************************************************)
ResetPositions == { "disabled", "slept", "cleared", "mouse reset", "set up" }

Running == { "started" } \cup ResetPositions

DevicesInterleave == { DeviceV1, DeviceV4 }

InitInterleave == Constructed /\ device \in DevicesInterleave

\* a step of a handler: the driver object becomes d, the handler is at position to
HandlerStep(d, to, name) ==
    /\ Becomes(d)
    /\ phase' = to
    /\ op' = name
    /\ UNCHANGED << now, delivered, total, device >>

\* message(kPS2M_resetTouchpad) with reqCode 1: setTouchPadEnable(false)
ResetDisable ==
    /\ phase = "started"
    /\ HandlerStep(setTouchPadEnable(Fresh, FALSE), "disabled", "disable")
    /\ scratch' = [ handler |-> "message" ]
    /\ UNCHANGED << stream, results >>

\* message(kPS2M_resetTouchpad): IOSleep(wakedelay)
ResetSleep ==
    /\ phase = "disabled"
    /\ HandlerStep(SleepWakeDelay(Fresh), "slept", "sleep")
    /\ UNCHANGED << stream, results, scratch >>

\* setDevicePowerState(kPS2C_EnableDevice): IOSleep(wakedelay)
WakeSleep ==
    /\ phase = "started"
    /\ HandlerStep(SleepWakeDelay(Fresh), "slept", "sleep")
    /\ scratch' = [ handler |-> "setDevicePowerState" ]
    /\ UNCHANGED << stream, results >>

\* both handlers: _packetByteCount = 0; _ringBuffer.reset(), and in message()
\* ignoreall = false before them
ClearStep ==
    /\ phase = "slept"
    /\ HandlerStep(
           ClearBuffers([ Fresh EXCEPT
               !.ignoreall = IF scratch.handler = "message" THEN FALSE ELSE @ ]),
           "cleared", "clear")
    /\ stream' = << >>
    /\ results' = << >>
    /\ UNCHANGED scratch

\* both handlers: resetMouse()
ResetMouseStep ==
    /\ phase = "cleared"
    /\ HandlerStep(resetMouse(Fresh), "mouse reset", "resetMouse")
    /\ UNCHANGED << stream, results, scratch >>

\* both handlers: elantechSetupPS2()
SetupStep ==
    /\ phase = "mouse reset"
    /\ HandlerStep(elantechSetupPS2(Fresh, device).driver, "set up", "setup")
    /\ UNCHANGED << stream, results, scratch >>

\* both handlers: setTouchPadEnable(true), and the handler returns
EnableStep ==
    /\ phase = "set up"
    /\ HandlerStep(setTouchPadEnable(Fresh, TRUE), "started", "enable")
    /\ UNCHANGED << stream, results, scratch >>

NextInterleave ==
    \/ Probe(DefaultConfig)
    \/ Start
    \/ InterruptOccurredAt(Running, total + 1)
    \/ PacketReadyAt(Running)
    \/ ResetDisable
    \/ ResetSleep
    \/ WakeSleep
    \/ ClearStep
    \/ ResetMouseStep
    \/ SetupStep
    \/ EnableStep

SpecInterleave == InitInterleave /\ [][NextInterleave]_vars

\* the k-th packet of the bytes that arrived since the last clear
ChunkOfStream(k) ==
    [ j \in 1 .. packetLength |-> stream[(k - 1) * packetLength + j] ]

\* the bytes of the packet under reassembly, at the head of the ring
PartialPacket ==
    [ j \in 1 .. packetByteCount |->
          ringBuffer.buffer[(ringBuffer.head + j - 1) % RingCapacity] ]

(***************************************************************************)
(* C28: the step of a reset request or of a power resume that clears the   *)
(* reassembly state leaves the partial-packet byte count 0 and the ring    *)
(* empty, and every packet dispatched afterwards is a run of packetLength  *)
(* bytes that arrived after the clear, counted from the first such byte;   *)
(* the bytes may arrive, and packetReady may be called, between any two    *)
(* steps of the handler.                                                   *)
(***************************************************************************)
C28_NoByteFromBeforeTheClear ==
    [][ /\ op' = "clear" =>
            /\ packetByteCount' = 0
            /\ ringBuffer'.count = 0
            /\ Buffered(ringBuffer', packetLength) = << >>
        /\ op' = "packetReady" =>
            LET sent == Buffered(ringBuffer, packetLength)
                ready == Len(stream) \div packetLength
            IN  /\ Len(sent) <= ready
                /\ packetByteCount = Len(stream) % packetLength
                /\ \A k \in 1 .. Len(sent) :
                       sent[k] = ChunkOfStream(ready - Len(sent) + k)
                /\ delivered' = delivered \o sent
        /\ op' = "interrupt" =>
            /\ packetByteCount' = Len(stream') % packetLength
            /\ \A j \in 1 .. packetByteCount' :
                   PartialPacket'[j] = stream'[Len(stream') - packetByteCount' + j]
      ]_vars

\* a byte arrived before the reset request and was cleared; the packet of the
\* bytes that arrived after the clear is dispatched before the handler is done
C28_Witness ==
    /\ phase = "mouse reset"
    /\ op = "packetReady"
    /\ scratch = [ handler |-> "message" ]
    /\ stream = [ j \in 1 .. packetLength |-> j + 1 ]
    /\ LastPacket = stream

\* the bounds of info cover the coordinate pair
Covers(i, pair) ==
    /\ i.x_min <= pair.x
    /\ pair.x <= i.x_max
    /\ i.y_min <= pair.y
    /\ pair.y <= i.y_max

(***************************************************************************)
(* C29: on hardware version 3 every coordinate pair decoded from a Head or *)
(* Tail packet of one, two or three fingers has been through the rescaler  *)
(* before it is inverted against y_max or stored, the pair a two-finger    *)
(* Head stages included: once the packet is processed the bounds cover the *)
(* pair, and the pair a two-finger Head has staged is (x, y_max - y) with  *)
(* a y_max that is not below y.                                            *)
(***************************************************************************)
C29_EveryPairRescaled ==
    [][ ( /\ phase = "started"
          /\ op' = "packet"
          /\ info.hw_version = 3
          /\ elantechPacketCheckV3(Driver, delivered'[Len(delivered')])
                 \in { PACKET_V3_HEAD, PACKET_V3_TAIL }
          /\ FingerCount(delivered'[Len(delivered')]) \in { 1, 2, 3 } )
        => LET p == delivered'[Len(delivered')]
           IN  /\ Covers(info', PairV3(p))
               /\ TwoFingerHalf(p, PACKET_V3_HEAD) =>
                      /\ etd'.mt0.x = PairV3(p).x
                      /\ etd'.mt0.y = info'.y_max - PairV3(p).y
                      /\ etd'.mt0.y >= 0
      ]_vars

(***************************************************************************)
(* elantechRescale on its own: started touchpads of hardware versions 3    *)
(* and 4 and the ETD0180, with and without an open consumer, and the       *)
(* function applied to coordinate pairs inside, on and outside the bounds. *)
(***************************************************************************)
DevicesRescale == { DeviceV3, DeviceV4, DeviceETD0180 }

CoordinatesRescale == { 0, 700, 1024, 1500, 3072, 3500, 4095 }

InitRescale == Constructed /\ device \in DevicesRescale

\* elantechRescale(x, y) is called
Rescale(x, y) ==
    /\ phase = "started"
    /\ total < MaxPackets
    /\ Becomes(elantechRescale(Fresh, x, y))
    /\ scratch' = [ x |-> x, y |-> y ]
    /\ total' = total + 1
    /\ op' = "rescale"
    /\ UNCHANGED << now, delivered, stream, results, phase, device >>

NextRescale ==
    \/ Probe(DefaultConfig)
    \/ Start
    \/ HandleOpen
    \/ \E x, y \in CoordinatesRescale : Rescale(x, y)

SpecRescale == InitRescale /\ [][NextRescale]_vars

\* the bounds of info after they have been widened to include (x, y)
Widened(i, x, y) ==
    [ i EXCEPT !.x_max = IF x > i.x_max THEN x ELSE i.x_max,
               !.x_min = IF x < i.x_min THEN x ELSE i.x_min,
               !.y_max = IF y > i.y_max THEN y ELSE i.y_max,
               !.y_min = IF y < i.y_min THEN y ELSE i.y_min ]

\* the dimension-change notification that carries the bounds of i
DimensionsOf(i) ==
    [ type |-> "dimensions", min_x |-> i.x_min, max_x |-> i.x_max,
      min_y |-> i.y_min, max_y |-> i.y_max ]

\* every field of the driver object but info, exported and the messages sent
RestOfDriver ==
    << etd, virtualFinger, buttons, lastFingers, heldFingers, headPacketsCount,
       keytime, maxaftertyping, ignoreall, ringBuffer, packetByteCount,
       packetLength, inputEvent, voodooInputInstance, mbutton, config,
       outOfBounds, lastPacketType >>

\* C30 as stated: the physical range is (max - min + 1) * 100 / resolution
\* on every touchpad, and one notification is sent whenever a bound changes
C30_AsStated ==
    [][ op' = "rescale" =>
          LET x == scratch'.x
              y == scratch'.y
          IN  /\ RestOfDriver' = RestOfDriver
              /\ IF Covers(info, [ x |-> x, y |-> y ])
                 THEN /\ info' = info
                      /\ exported' = exported
                      /\ out' = << >>
                 ELSE /\ info' = Widened(info, x, y)
                      /\ exported' =
                           [ logical_max_x |-> info'.x_max - info'.x_min,
                             logical_max_y |-> info'.y_max - info'.y_min,
                             physical_max_x |->
                                 ((info'.x_max - info'.x_min + 1) * 100) \div info.x_res,
                             physical_max_y |->
                                 ((info'.y_max - info'.y_min + 1) * 100) \div info.y_res ]
                      /\ out' = << DimensionsOf(info') >>
      ]_vars

(***************************************************************************)
(* C30: elantechRescale(x, y) with x_min <= x <= x_max and                 *)
(* y_min <= y <= y_max changes no bound and no exported dimension and      *)
(* sends nothing; with a coordinate outside the bounds it changes only the *)
(* violated bounds, to exactly that coordinate, exports the logical range  *)
(* max - min and the physical range (max - min + 1) * 100 / resolution,    *)
(* or 70620 for both physical dimensions when x_res is 6, and sends one    *)
(* dimension-change notification with the new bounds when a consumer is    *)
(* open and none when none is.  Nothing else of the driver changes.        *)
(***************************************************************************)
C30_RescaleFrame ==
    [][ op' = "rescale" =>
          LET x == scratch'.x
              y == scratch'.y
          IN  /\ RestOfDriver' = RestOfDriver
              /\ IF Covers(info, [ x |-> x, y |-> y ])
                 THEN /\ info' = info
                      /\ exported' = exported
                      /\ out' = << >>
                 ELSE /\ info' = Widened(info, x, y)
                      /\ exported'.logical_max_x = info'.x_max - info'.x_min
                      /\ exported'.logical_max_y = info'.y_max - info'.y_min
                      /\ exported'.physical_max_x =
                             IF info.x_res = 6 THEN 70620
                             ELSE ((info'.x_max - info'.x_min + 1) * 100) \div info.x_res
                      /\ exported'.physical_max_y =
                             IF info.x_res = 6 THEN 70620
                             ELSE ((info'.y_max - info'.y_min + 1) * 100) \div info.y_res
                      /\ DOMAIN exported' = DOMAIN exported
                      /\ out' = IF voodooInputInstance THEN << DimensionsOf(info') >>
                                ELSE << >>
      ]_vars

\* a consumer is open and only y was outside the bounds of a touchpad whose
\* resolution is not 6: x_max is as negotiated, y_max is the coordinate
C30_Witness ==
    /\ op = "rescale"
    /\ voodooInputInstance
    /\ total = 1
    /\ info.hw_version = 3
    /\ scratch = [ x |-> 700, y |-> 1500 ]
    /\ info.x_max = 1024
    /\ info.y_max = 1500
    /\ exported.physical_max_y = (1501 * 100) \div 31
    /\ out = << DimensionsOf(info) >>

\* the ETD0180 (x_res = 6): both physical dimensions are 70620
C30_WitnessETD0180 ==
    /\ op = "rescale"
    /\ info.x_res = 6
    /\ scratch.x > 3072
    /\ info.x_max = scratch.x
    /\ exported.physical_max_x = 70620

(***************************************************************************)
(* C31: on hardware versions 3 and 4 every contact of an emitted frame has *)
(* its x within x_min .. x_max and its inverted y within 0 .. y_max of the *)
(* bounds as they are when the frame is sent; no coordinate is below zero  *)
(* or has wrapped around (a wrapped unsigned value is kept here as the     *)
(* negative number of the same bits).                                      *)
(***************************************************************************)
C31_ContactsWithinBounds ==
    info.hw_version \in { 3, 4 } =>
        \A f \in 1 .. Len(TouchFrames) :
            \A k \in 0 .. (TouchFrames[f].event.contact_count - 1) :
                LET c == TouchFrames[f].event.transducers[k].currentCoordinates
                IN  /\ info.x_min <= c.x
                    /\ c.x <= info.x_max
                    /\ 0 <= c.y
                    /\ c.y <= info.y_max

(***************************************************************************)
(* elantechPacketCheckV4 on its own: started V4 touchpads with and without *)
(* a trackpoint, with crc, and of IC body 7 with and without the sample    *)
(* byte 0x2A; the function is applied to a buffer, and applied again.      *)
(***************************************************************************)
DevicesClassify ==
    { DeviceV4,
      Touchpad(<< 70, 15, 0 >>, << 0, 16, 8 >>, << 0, 0, 0 >>, << 140, 0, 0 >>),
      Touchpad(<< 70, 79, 0 >>, << 128, 16, 8 >>, << 0, 0, 0 >>, << 140, 0, 0 >>),
      Touchpad(<< 71, 15, 0 >>, << 0, 16, 8 >>, << 0, 42, 0 >>, << 140, 0, 0 >>),
      Touchpad(<< 71, 15, 0 >>, << 128, 16, 8 >>, << 0, 0, 0 >>, << 140, 0, 0 >>) }

PacketsClassify == { << b0, 0, 0, b3, 0, 0 >> : b0 \in { 0, 8, 49 }, b3 \in 0 .. 255 }

InitClassify == Constructed /\ device \in DevicesClassify

\* elantechPacketCheckV4() is called on the buffer, one buffer a behaviour
Classify(packet) ==
    /\ phase = "started"
    /\ scratch = << >>
    /\ scratch' = [ packet |-> packet, type |-> elantechPacketCheckV4(Driver, packet),
                    times |-> 1 ]
    /\ op' = "classify"
    /\ UNCHANGED << info, etd, virtualFinger, buttons, lastFingers, heldFingers,
                    headPacketsCount, keytime, maxaftertyping, ignoreall,
                    ringBuffer, packetByteCount, packetLength, inputEvent,
                    voodooInputInstance, mbutton, config, exported, outOfBounds,
                    out, trace, lastPacketType, now, History, phase, device >>

\* and called again on the same buffer
ClassifyAgain ==
    /\ phase = "started"
    /\ op = "classify"
    /\ scratch.times = 1
    /\ scratch' = [ scratch EXCEPT
                      !.type = elantechPacketCheckV4(Driver, scratch.packet),
                      !.times = 2 ]
    /\ UNCHANGED << info, etd, virtualFinger, buttons, lastFingers, heldFingers,
                    headPacketsCount, keytime, maxaftertyping, ignoreall,
                    ringBuffer, packetByteCount, packetLength, inputEvent,
                    voodooInputInstance, mbutton, config, exported, outOfBounds,
                    out, trace, lastPacketType, now, History, phase, device, op >>

NextClassify ==
    \/ Probe(DefaultConfig)
    \/ Start
    \/ \E p \in PacketsClassify : Classify(p)
    \/ ClassifyAgain

SpecClassify == InitClassify /\ [][NextClassify]_vars

\* bit k of the byte b
BitOf(b, k) == (b \div (2 ^ k)) % 2

\* the type the classification table gives the packet p on a touchpad with
\* the flags of i
TableV4(i, p) ==
    LET b0 == p[1]
        b3 == p[4]
        body == (i.fw_version \div 65536) % 16
        constant == BitOf(b3, 4) = 1 /\ BitOf(b3, 3) = 0 /\ BitOf(b3, 2) = 0
        sane == IF i.crc_enabled THEN BitOf(b3, 3) = 0
                ELSE IF body = 7 /\ i.samples[2] = 42 THEN constant
                ELSE BitOf(b0, 3) = 0 /\ constant
    IN  IF i.has_trackpoint /\ b3 % 16 = 6 THEN PACKET_TRACKPOINT
        ELSE IF ~sane THEN PACKET_UNKNOWN
        ELSE IF b3 % 4 = 0 THEN PACKET_V4_STATUS
        ELSE IF b3 % 4 = 1 THEN PACKET_V4_HEAD
        ELSE IF b3 % 4 = 2 THEN PACKET_V4_MOTION
        ELSE PACKET_UNKNOWN

(***************************************************************************)
(* C32: the V4 classification of a six-byte packet is Trackpoint if the    *)
(* touchpad has a trackpoint and byte3 & 0x0f = 0x06; otherwise Unknown if *)
(* the sanity check fails (byte3 & 0x08 = 0 with crc, byte3 & 0x1c = 0x10  *)
(* for IC body 7 with sample byte 0x2A, byte0 & 0x08 = 0 and               *)
(* byte3 & 0x1c = 0x10 otherwise); otherwise Status, Head or Motion for    *)
(* byte3 & 0x03 = 0, 1, 2 and Unknown for 3.  The second classification of *)
(* the same buffer gives the type of the first.                            *)
(***************************************************************************)
C32_ClassificationTable ==
    [][ /\ op' = "classify" =>
            /\ info.hw_version = 4
            /\ scratch'.type = TableV4(info, scratch'.packet)
        /\ (op' = "classify" /\ scratch'.times = 2) =>
            /\ scratch'.type = scratch.type
            /\ scratch'.packet = scratch.packet
      ]_vars

\* a touchpad of IC body 7 with sample byte 0x2A takes a Head packet whose
\* byte 0 has bit 3 set, twice
C32_Witness ==
    /\ op = "classify"
    /\ scratch.times = 2
    /\ (info.fw_version \div 65536) % 16 = 7
    /\ info.samples[2] = 42
    /\ scratch.packet = << 8, 0, 0, 17, 0, 0 >>
    /\ scratch.type = PACKET_V4_HEAD

\* a packet with the trackpoint signature whose constant bits are wrong
C32_WitnessTrackpoint ==
    /\ op = "classify"
    /\ info.has_trackpoint
    /\ ~info.crc_enabled
    /\ scratch.packet = << 8, 0, 0, 6, 0, 0 >>
    /\ scratch.type = PACKET_TRACKPOINT

\* the debounce signature of the hardware version: 0x84 or 0xc4, ff ff 02 ff ff
DebounceSignature(version) ==
    << IF version = 2 THEN 132 ELSE 196, 255, 255, 2, 255, 255 >>

\* the packet has the bits of a V3 Head without crc:
\* byte0 & 0x0c = 0x04 and byte3 & 0xcf = 0x02
HasHeadSignature(p) ==
    /\ (p[1] \div 4) % 4 = 1
    /\ p[4] % 16 = 2
    /\ p[4] \div 64 = 0

(***************************************************************************)
(* C33: a packet equal to the debounce signature of a V2 or V3 touchpad is *)
(* discarded: the virtual-finger slots, the finger count, the staged       *)
(* coordinates, the buttons, the bounds and the exported dimensions stay   *)
(* as they were and nothing is sent; on V3 it is classified as debounce    *)
(* and not as a Head, whose signature bits it has.                         *)
(***************************************************************************)
C33_DebounceDiscarded ==
    [][ ( /\ op' = "packet"
          /\ info.hw_version \in { 2, 3 }
          /\ delivered'[Len(delivered')] = DebounceSignature(info.hw_version) ) =>
          /\ lastPacketType' = PACKET_DEBOUNCE
          /\ HasHeadSignature(delivered'[Len(delivered')])
          /\ virtualFinger' = virtualFinger
          /\ lastFingers' = lastFingers
          /\ etd' = etd
          /\ buttons' = buttons
          /\ info' = info
          /\ exported' = exported
          /\ inputEvent' = inputEvent
          /\ out' = << >> ]_vars

\* a V3 touchpad with an open consumer and a finger down takes the debounce
\* packet
C33_Witness ==
    /\ op = "packet"
    /\ info.hw_version = 3
    /\ voodooInputInstance
    /\ Len(delivered) = 2
    /\ LastPacket = << 196, 255, 255, 2, 255, 255 >>
    /\ lastPacketType = PACKET_DEBOUNCE
    /\ virtualFinger[0].touch
    /\ lastFingers = 1

\* a V2 touchpad takes its debounce packet
C33_WitnessV2 ==
    /\ op = "packet"
    /\ info.hw_version = 2
    /\ LastPacket = << 132, 255, 255, 2, 255, 255 >>
    /\ lastPacketType = PACKET_DEBOUNCE
    /\ virtualFinger[0].touch

(***************************************************************************)
(* Setups that fail: touchpads that leave register writes unanswered, at   *)
(* start, at a reset request and at a wake-up, and the packets they send   *)
(* afterwards.                                                             *)
(***************************************************************************)
DevicesEnable ==
    { DeviceV4, DeviceV3,
      [ DeviceV4 EXCEPT !.fails = { "write" } ],
      [ DeviceV3 EXCEPT !.fails = { "write" } ],
      [ DeviceV4 EXCEPT !.once = { << "write", 2 >> } ] }

PacketsEnable ==
    { StatusV4(0, 0), StatusV4(1, 0), HeadV4(0, 100, 200, 0),
      PacketV3(PACKET_V3_HEAD, 1, 500, 400, 0) }

InitEnable == Constructed /\ device \in DevicesEnable

NextEnable ==
    \/ Probe(DefaultConfig)
    \/ Start
    \/ HandleOpen
    \/ WakeUp
    \/ ResetTouchpad(1)
    \/ \E p \in PacketsEnable : ReceivePacket(p)

SpecEnable == InitEnable /\ [][NextEnable]_vars

\* the step runs elantechSetupPS2 and then enables the touchpad
RunsSetup(name) == name \in { "start", "wake", "resetTouchpad" }

(***************************************************************************)
(* C34: at start, after a reset request and after a wake-up the touchpad   *)
(* is enabled only when elantechSetupPS2 has succeeded: when it returns a  *)
(* failure no kDP_Enable is sent in that step, and no packet is processed  *)
(* as an absolute-mode packet afterwards.                                  *)
(***************************************************************************)
C34_EnabledOnlyAfterSetup ==
    [][ /\ ( RunsSetup(op') /\ elantechSetupPS2(Fresh, device).rc # 0 ) =>
              { i \in EntriesOf(trace', "enable") : trace'[i].command = "kDP_Enable" } = { }
        /\ ( op' = "packet" /\ RunsSetup(op)
             /\ { i \in EntriesOf(trace, "enable") : trace[i].command = "kDP_Enable" } = { } ) =>
              /\ out' = << >>
              /\ virtualFinger' = virtualFinger
      ]_vars

(***************************************************************************)
(* External pointers: USB and Bluetooth devices are published and          *)
(* terminated, the option USBMouseStopsTrackpad is set and cleared, the    *)
(* keyboard enables and disables the trackpad, a reset is requested, and   *)
(* the touchpad sends packets.                                             *)
(***************************************************************************)
Notifiers ==
    { "usb_hid_publish_notify", "usb_hid_terminate_notify",
      "bluetooth_hid_publish_notify", "bluetooth_hid_terminate_notify" }

\* a mouse, and a Bluetooth device that is no pointer
Services == { [ id |-> "mouse", pointing |-> TRUE ],
              [ id |-> "headset", pointing |-> FALSE ] }

PacketsPointer == { StatusV4(1, 0), StatusV4(0, 0) }

InitPointer == Constructed /\ device = DeviceV4

SetParamProperties(value) ==
    /\ phase = "started"
    /\ Becomes(setParamPropertiesGated(Fresh, value))
    /\ op' = "setProperties"
    /\ UNCHANGED << now, History, phase, device, scratch >>

NotificationHIDAttached(newService, notifier) ==
    /\ phase = "started"
    /\ Becomes(notificationHIDAttachedHandlerGated(Fresh, newService, notifier))
    /\ op' = "notification"
    /\ UNCHANGED << now, History, phase, device, scratch >>

NextPointer ==
    \/ Probe(DefaultConfig)
    \/ Start
    \/ HandleOpen
    \/ \E value \in BOOLEAN : SetParamProperties(value)
    \/ \E s \in Services, n \in Notifiers : NotificationHIDAttached(s, n)
    \/ \E enable \in BOOLEAN : SetDisableTouchpad(enable)
    \/ ResetTouchpad(1)
    \/ \E p \in PacketsPointer : ReceivePacket(p)

SpecPointer == InitPointer /\ [][NextPointer]_vars

\* the option is on and an external pointer is attached
PointerStopsTrackpad ==
    /\ config.usb_mouse_stops_trackpad
    /\ config.attachedHIDPointerDevices # { }

\* C35 as stated: the trackpad ignores every packet while the option is on
\* and a pointer is attached, whatever messages have come in between
C35_AsStated ==
    ( phase = "started" /\ PointerStopsTrackpad ) => ignoreall

(***************************************************************************)
(* C35: with the option USBMouseStopsTrackpad on, the trackpad ignores all *)
(* packets from the moment a pointer device is published, or the option is *)
(* set while one is attached, until the keyboard enables the trackpad or a *)
(* reset is requested, which both clear ignoreall whatever is attached; it *)
(* processes packets again when the last pointer device is terminated.     *)
(* While ignoreall is set a packet is taken from the ring, changes no      *)
(* finger state and sends nothing.                                         *)
(***************************************************************************)
C35_IgnoresUntilEnabledOrReset ==
    [][ phase = "started" =>
          /\ ( op' = "notification" /\ PointerStopsTrackpad'
               /\ config'.attachedHIDPointerDevices \ config.attachedHIDPointerDevices # { } )
                 => ignoreall'
          /\ ( op' = "setProperties" /\ PointerStopsTrackpad' ) => ignoreall'
          /\ ( op' = "notification" /\ config.usb_mouse_stops_trackpad
               /\ config.attachedHIDPointerDevices # { }
               /\ config'.attachedHIDPointerDevices = { } ) => ~ignoreall'
          /\ ( PointerStopsTrackpad /\ PointerStopsTrackpad' /\ ignoreall
               /\ op' \notin { "setDisableTouchpad", "resetTouchpad" } ) => ignoreall'
          /\ ( op' = "packet" /\ ignoreall ) =>
                 /\ virtualFinger' = virtualFinger
                 /\ buttons' = buttons
                 /\ heldFingers' = heldFingers
                 /\ out' = << >>
                 /\ ringBuffer'.count = 0
                 /\ ringBuffer'.tail = (ringBuffer.tail + packetLength) % RingCapacity
          /\ ( op' = "packet" /\ ~ignoreall /\ voodooInputInstance
               /\ delivered'[Len(delivered')] = StatusV4(0, 0) ) => out' # << >>
      ]_vars

\* a mouse is attached with the option on, a finger is down, and the packet
\* that reports the lift is ignored
C35_Witness ==
    /\ op = "packet"
    /\ PointerStopsTrackpad
    /\ ignoreall
    /\ voodooInputInstance
    /\ LastPacket = StatusV4(0, 0)
    /\ virtualFinger[0].touch
    /\ out = << >>

\* the keyboard has enabled the trackpad while the mouse is attached
C35_WitnessEnabled ==
    /\ op = "setDisableTouchpad"
    /\ PointerStopsTrackpad
    /\ ~ignoreall

(***************************************************************************)
(* C36: nothing is sent while no consumer is open: before any handleOpen   *)
(* and after handleClose a step makes no call of messageClient, be it for  *)
(* a touch frame, for a change of dimensions or for a button report.       *)
(***************************************************************************)
C36_NothingSentWithoutConsumer ==
    ~voodooInputInstance => out = << >>

(***************************************************************************)
(* Four and five fingers: Status packets set the contacts, Head packets    *)
(* place them at different heights.                                        *)
(***************************************************************************)
PacketsThumb ==
    { StatusV4(31, 0), StatusV4(15, 0), StatusV4(7, 0), StatusV4(27, 0) }
    \cup { HeadV4(id, 100, y, 0) : id \in { 0, 1, 3, 4 }, y \in { 200, 300 } }

NextThumb ==
    \/ Probe(DefaultConfig)
    \/ Start
    \/ HandleOpen
    \/ \E p \in PacketsThumb : ReceivePacket(p)

SpecThumb == InitV4 /\ [][NextThumb]_vars

\* the finger types of the first n contacts of a frame
TypesOf(event) ==
    [ k \in 0 .. (event.contact_count - 1) |-> event.transducers[k].fingerType ]

\* contact k is the first of the frame with the largest y
LowestFirst(event, k) ==
    /\ \A j \in 0 .. (event.contact_count - 1) :
          ~ULt(event.transducers[k].currentCoordinates.y,
               event.transducers[j].currentCoordinates.y)
    /\ \A j \in 0 .. (k - 1) :
          ULt(event.transducers[j].currentCoordinates.y,
              event.transducers[k].currentCoordinates.y)

(***************************************************************************)
(* C37: in a frame with four or more contacts exactly one contact has the  *)
(* type thumb, and it is the first contact with the largest y; the other   *)
(* contacts have types that differ from each other and from thumb.  In a   *)
(* frame with fewer contacts the k-th contact has the k-th type of the     *)
(* enumeration: index, middle, ring.                                       *)
(***************************************************************************)
C37_ThumbIsLowestContact ==
    \A f \in 1 .. Len(TouchFrames) :
       LET event == TouchFrames[f].event
           n == event.contact_count
           types == TypesOf(event)
       IN  IF n >= 4
           THEN /\ Cardinality({ k \in 0 .. (n - 1) : types[k] = "Thumb" }) = 1
                /\ \A k \in 0 .. (n - 1) : types[k] = "Thumb" <=> LowestFirst(event, k)
                /\ \A j, k \in 0 .. (n - 1) : ( j # k ) => types[j] # types[k]
           ELSE \A k \in 0 .. (n - 1) :
                   types[k] = << "IndexFinger", "MiddleFinger", "RingFinger" >>[k + 1]

\* five contacts of which the second is the lowest: it is the thumb, and
\* the fourth has taken its type
C37_Witness ==
    /\ Len(TouchFrames) = 1
    /\ TouchFrames[1].event.contact_count = 5
    /\ TypesOf(TouchFrames[1].event)[1] = "Thumb"
    /\ TypesOf(TouchFrames[1].event)[3] = "MiddleFinger"

\* four contacts, two of them at the largest y: the first of the two
C37_WitnessTie ==
    /\ Len(TouchFrames) = 1
    /\ TouchFrames[1].event.contact_count = 4
    /\ \E j, k \in 0 .. 3 :
          /\ j < k
          /\ TypesOf(TouchFrames[1].event)[j] = "Thumb"
          /\ TouchFrames[1].event.transducers[j].currentCoordinates.y =
             TouchFrames[1].event.transducers[k].currentCoordinates.y
          /\ TouchFrames[1].event.transducers[j].currentCoordinates.y # 0

(***************************************************************************)
(* The middle button: a touchpad with two physical buttons and a clickpad, *)
(* with FakeMiddleButton set and cleared, receive packets with every       *)
(* combination of the two buttons, without a finger and with two fingers   *)
(* on the surface, while the clock advances and the button timer fires.    *)
(***************************************************************************)
MiddleTime == 2

MiddlePackets == 3

\* hardware version 4, firmware 0x461f00: a clickpad
DeviceV4Buttonpad ==
    Touchpad(<< 70, 31, 0 >>, << 128, 16, 8 >>, << 0, 0, 0 >>, << 140, 0, 0 >>)

DevicesMiddle == { DeviceV4, DeviceV4Buttonpad }

ConfigsMiddle ==
    { DefaultConfig, [ DefaultConfig EXCEPT !.fakemiddlebutton = 0 ] }

PacketsMiddle ==
    { StatusV4(0, btn) : btn \in 0 .. 3 }
    \cup { StatusV4(3, 0), HeadV4(0, 100, 200, 3), HeadV4(1, 300, 400, 3) }

InitMiddle == Constructed /\ device \in DevicesMiddle

\* the timer set by middleButton fires, not before its time
ButtonTimer ==
    /\ phase = "started"
    /\ mbutton.timerArmed
    /\ now - mbutton.buttontime >= config.maxmiddleclicktime
    /\ Becomes(onButtonTimer(Fresh, now))
    /\ op' = "buttonTimer"
    /\ UNCHANGED << now, History, phase, device, scratch >>

NextMiddle ==
    \/ \E conf \in ConfigsMiddle : Probe(conf)
    \/ Start
    \/ HandleOpen
    \/ \E p \in PacketsMiddle : ReceivePacketWithin(p, MiddlePackets)
    \/ TickWithin(MiddleTime)
    \/ ButtonTimer

SpecMiddle == InitMiddle /\ [][NextMiddle]_vars

\* the buttons sendTouchData hands to middleButton
RawButtons(b) == (IF b.left # 0 THEN 1 ELSE 0) + (IF b.right # 0 THEN 2 ELSE 0)

FakesMiddleButton == config.fakemiddlebutton # 0 /\ ~info.is_buttonpad

\* the step is a packet that has gone through sendTouchData to the button
\* report
Reported == op' = "packet" /\ Len(ButtonReports') = 1

\* what the report of the step says of the buttons
ReportedButtons == ButtonReports'[1].buttons

\* the step is a packet whose two buttons are both down, and the machine
\* was at rest, or still inside the window of the first button, or already
\* at the middle button
BothPressed ==
    /\ RawButtons(buttons') = 3
    /\ \/ mbutton.state \in { "STATE_NOBUTTONS", "STATE_MIDDLE" }
       \/ /\ mbutton.state = "STATE_WAIT4TWO"
          /\ now - mbutton.buttontime <= config.maxmiddleclicktime

\* C38 as stated: both buttons are always the middle button, and no left or
\* right bit passes while the machine waits
C38_AsStated ==
    [][ ( Reported /\ FakesMiddleButton ) =>
          /\ BothPressed =>
               ( ReportedButtons = 4 /\ mbutton'.state = "STATE_MIDDLE" )
          /\ mbutton'.state \in { "STATE_WAIT4TWO", "STATE_WAIT4NONE" } =>
               ReportedButtons % 4 = 0
      ]_vars

(***************************************************************************)
(* C38: with FakeMiddleButton set, on a touchpad that is no clickpad, both *)
(* buttons down at rest, or the second button inside the window of the     *)
(* first, are the middle button alone (4) for as long as both stay down,   *)
(* and no left or right bit passes while the machine waits, unless more    *)
(* than one finger touches and one of them is above the button area: both  *)
(* buttons are then the left button (1) and the machine stays where it is. *)
(* With FakeMiddleButton clear, or on a clickpad, the buttons pass as they *)
(* are and the machine never moves.                                        *)
(***************************************************************************)
C38_MiddleButton ==
    [][ /\ ( Reported /\ FakesMiddleButton ) =>
             IF RawButtons(buttons') = 3
                /\ Cardinality({ i \in Slots : virtualFinger'[i].touch }) > 1
                /\ \E i \in Slots : /\ virtualFinger'[i].touch
                                    /\ ULt(virtualFinger'[i].now.y, info.y_max - 100)
             THEN ReportedButtons = 1 /\ mbutton' = mbutton
             ELSE /\ BothPressed =>
                       ( ReportedButtons = 4 /\ mbutton'.state = "STATE_MIDDLE" )
                  /\ mbutton'.state \in { "STATE_WAIT4TWO", "STATE_WAIT4NONE" } =>
                       ReportedButtons % 4 = 0
        /\ ( Reported /\ ~FakesMiddleButton ) => ReportedButtons = RawButtons(buttons')
        /\ ( phase = "started" /\ ~FakesMiddleButton ) => mbutton' = mbutton
      ]_vars

\* left, then right inside the window, then both again: the middle button
\* has been reported twice
C38_Witness ==
    /\ op = "packet"
    /\ FakesMiddleButton
    /\ Len(delivered) = 3
    /\ delivered[1] = StatusV4(0, 1)
    /\ delivered[2] = StatusV4(0, 3)
    /\ delivered[3] = StatusV4(0, 3)
    /\ mbutton.state = "STATE_MIDDLE"
    /\ Len(ButtonReports) = 1
    /\ ButtonReports[1].buttons = 4

\* both buttons with two fingers on the surface: the left button
C38_WitnessNavigation ==
    /\ op = "packet"
    /\ FakesMiddleButton
    /\ LastPacket = HeadV4(1, 300, 400, 3)
    /\ Len(ButtonReports) = 1
    /\ ButtonReports[1].buttons = 1

\* FakeMiddleButton is clear and both buttons go through
C38_WitnessDisabled ==
    /\ op = "packet"
    /\ config.fakemiddlebutton = 0
    /\ LastPacket = StatusV4(0, 3)
    /\ Len(ButtonReports) = 1
    /\ ButtonReports[1].buttons = 3

(***************************************************************************)
(* The middle button under fair scheduling: the timer of the work loop     *)
(* fires once it is set and due, the clock advances, and the touchpad      *)
(* keeps sending the packet of a held left button while packets may come.  *)
(***************************************************************************)
HeldPacket == StatusV4(0, 1)

\* the held packet can arrive: the guard of ReceivePacketWithin
HeldMayArrive ==
    /\ phase = "started"
    /\ total < MiddlePackets
    /\ packetLength = Len(HeldPacket)

\* weak fairness of the timer and of the clock, and of the arrival of the
\* held packet, written out with the guard of the action
SpecMiddleFair ==
    /\ SpecMiddle
    /\ WF_vars(ButtonTimer)
    /\ WF_vars(TickWithin(MiddleTime))
    /\ \/ []<>(~HeldMayArrive)
       \/ []<><<ReceivePacketWithin(HeldPacket, MiddlePackets)>>_vars

\* the left button alone is down, its window has ended by the timer or by
\* the clock, and the touchpad has more packets to send
HeldBeyondWindow ==
    /\ phase = "started"
    /\ FakesMiddleButton
    /\ voodooInputInstance
    /\ delivered # << >>
    /\ LastPacket = HeldPacket
    /\ total < MiddlePackets
    /\ \/ op = "buttonTimer"
       \/ /\ mbutton.state = "STATE_WAIT4TWO"
          /\ now - mbutton.buttontime > config.maxmiddleclicktime

\* the consumer has been told that the left button is down
ReportedPressed ==
    /\ op = "packet"
    /\ Len(ButtonReports) = 1
    /\ ButtonReports[1].toClient
    /\ ButtonReports[1].buttons = 1

\* a packet with other buttons has come: the button is no longer held alone
NoLongerHeld == delivered # << >> /\ LastPacket # HeldPacket

DrainPackets == 4

DevicesDrain == { DeviceV4, DeviceV1 }

PacketsDrain ==
    { StatusV4(0, 0), StatusV4(0, 1), StatusV4(0, 2), << 0, 0, 0, 19, 0, 0 >>,
      PacketV1(0, 0, 0, 0), PacketV1(0, 0, 0, 1), PacketV1(0, 0, 0, 2),
      << 8, 1, 0, 0 >> }

InitDrain == Constructed /\ device \in DevicesDrain

\* the bytes of a packet go through interruptOccurred; packetReady has not
\* been called yet
ArrivePacket(p) ==
    /\ phase = "started"
    /\ total < DrainPackets
    /\ Len(p) = packetLength
    /\ ringBuffer.count + packetLength <= RingCapacity
    /\ Becomes(FeedBytes(Fresh, p))
    /\ total' = total + 1
    /\ op' = "arrive"
    /\ UNCHANGED << now, delivered, stream, results, phase, device, scratch >>

NextDrain ==
    \/ Probe([ DefaultConfig EXCEPT !.fakemiddlebutton = 0 ])
    \/ Start
    \/ HandleOpen
    \/ \E enable \in BOOLEAN : SetDisableTouchpad(enable)
    \/ \E p \in PacketsDrain : ArrivePacket(p)
    \/ PacketReady

SpecDrain == InitDrain /\ [][NextDrain]_vars

\* the packets of the ring that are valid, in the order they arrived
ValidOf(packets) ==
    SelectSeq(packets, LAMBDA p : p \notin { << 0, 0, 0, 19, 0, 0 >>, << 8, 1, 0, 0 >> })

\* the buttons a packet of PacketsDrain carries: the low bits of byte 0
ButtonsOf(p) == p[1] % 4

(***************************************************************************)
(* C40: packetReady returns with fewer than a packet's bytes in the ring:  *)
(* the tail has advanced by one packet length for every packet that was    *)
(* buffered, be it processed, ignored (ignoreall) or dropped as invalid,   *)
(* and the head and the bytes are as they were.  The packets are handled   *)
(* in the order of their arrival: the button reports of the call are those *)
(* of the valid packets, in their order; while ignoreall is set nothing is *)
(* reported and no finger state changes.                                   *)
(***************************************************************************)
C40_PacketReadyDrains ==
    [][ op' = "packetReady" =>
          LET n == ringBuffer.count \div packetLength
              arrived == [ k \in 1 .. n |->
                             [ i \in 1 .. packetLength |->
                                 ringBuffer.buffer[(ringBuffer.tail
                                                    + (k - 1) * packetLength
                                                    + (i - 1)) % RingCapacity] ] ]
          IN  /\ packetLength > 0
              /\ ringBuffer'.count < packetLength
              /\ ringBuffer'.count = ringBuffer.count - n * packetLength
              /\ ringBuffer'.tail = (ringBuffer.tail + n * packetLength) % RingCapacity
              /\ ringBuffer'.head = ringBuffer.head
              /\ ringBuffer'.buffer = ringBuffer.buffer
              /\ IF ignoreall
                 THEN /\ out' = << >>
                      /\ virtualFinger' = virtualFinger
                      /\ buttons' = buttons
                 ELSE /\ Len(ButtonReports') = Len(ValidOf(arrived))
                      /\ \A k \in 1 .. Len(ButtonReports') :
                            ButtonReports'[k].buttons = ButtonsOf(ValidOf(arrived)[k])
      ]_vars

\* two packets were in the ring, an invalid one and one with the right
\* button: one report, and the ring is empty
C40_Witness ==
    /\ op = "packetReady"
    /\ info.hw_version = 4
    /\ Len(delivered) >= 2
    /\ delivered[Len(delivered) - 1] = << 0, 0, 0, 19, 0, 0 >>
    /\ LastPacket = StatusV4(0, 2)
    /\ Len(ButtonReports) = 1
    /\ ringBuffer.count = 0

\* three packets of four bytes with the buttons left, none, right
C40_WitnessOrder ==
    /\ op = "packetReady"
    /\ info.hw_version = 1
    /\ Len(ButtonReports) = 3
    /\ ButtonReports[1].buttons = 1
    /\ ButtonReports[2].buttons = 0
    /\ ButtonReports[3].buttons = 2

\* two packets are taken from the ring while the trackpad is disabled
C40_WitnessIgnored ==
    /\ op = "packetReady"
    /\ ignoreall
    /\ Len(delivered) = 2
    /\ ringBuffer.count = 0
    /\ ringBuffer.tail = 0

=============================================================================
